---- MODULE Spec2Model ----
(***************************************************************************)
(* Verification model of tdc_toolkit (multiharp_toolkit).                  *)
(*                                                                         *)
(* Coincidence engine: python/multiharp_toolkit/coincidence_counter.py     *)
(* and its earlier draft src/multiharp_toolkit/coincidence_counter.py,     *)
(* whose process dispatches an event to a machine only if it is_ready.     *)
(*                                                                         *)
(* Time tags are floats in the source.  Every time tag used by the tests   *)
(* and scenarios is a multiple of 0.5, so the model measures time in       *)
(* half-units: 11.5 is 23, the window (1.0, 2.0) is (2, 4).                *)
(*                                                                         *)
(* Record decoders (SpecDecoder), the poll loop of Device.start_measurement*)
(* (SpecDevice) and the stub source (SpecStub) follow the coincidence      *)
(* engine (Spec), each with its own variables.  SpecPipeline runs the      *)
(* stub source, the queue processor and a consumer as the three tasks of   *)
(* python_tests/test_tttr_record.py.  SpecHandle is the handle of a        *)
(* Device (open, configure, close), SpecSink is write_parquet and          *)
(* SpecHeader the header loop of parse.  SpecG2 is the g2 driver (main and *)
(* calc_g2), SpecHist is Histogram.process and SpecOnce the life cycle of  *)
(* one T2RecordQueueProcessor (open, async with, close).                   *)
(***************************************************************************)
EXTENDS Integers, Sequences, FiniteSets, TLC

\* coincidence engine
VARIABLES package, number_of_counts, coincidence_counters, raised, events, pending

\* record decoders
VARIABLES decoder, source, ptu_version, overflow_correction, held_truetime,
          raw_records, decoded, ch_arr, queue_send, decoder_raised

\* Device.start_measurement (python/multiharp_toolkit/device.py)
VARIABLES test_enabled, pc, queue, oflcorrection, calls, device_raised

\* StubMultiharpDevice.stream_measurement
VARIABLES stub_pc, output_queue, is_shutdown, measurement_time, now,
          start_time, wake_at

\* the pipeline of test_no_overflow: stub source, T2RecordQueueProcessor.open,
\* read_queued_messages, as three tasks of one event loop
VARIABLES ready, running, proc_pc, batch_in_hand, closed, processed_queue,
          processed_shutdown, cons_pc, sent, received, pipe_raised

\* Device.open, configure and close (python/multiharp_toolkit/device.py)
VARIABLES is_open, num_inputs, inputs, ops

\* write_parquet (python/multiharp_toolkit/output.py)
VARIABLES input_queue, sink_shutdown, sink_pc, sink_raised, batch_dict,
          chunk_count, files, record, chunk_rows, file_rows, puts

\* parse, the header of a capture file (src/multiharp_toolkit/ptu_parser.py)
VARIABLES inputfile, cursor, tagDataList, parse_pc

\* main and calc_g2 of the g2 driver (src/multiharp_toolkit/calc_g2.py)
VARIABLES g2_pc, result_events, peak1, peak2, peak_width, df, peak_start_1,
          peak_end_1, peak_start_2, peak_end_2, channel_swapped, window_of,
          counter, res, g2_raised

\* Histogram.process (python/multiharp_toolkit/histogram.py)
VARIABLES hist_pc, hist_base_ch, hist_channels, frame, hist_df

\* the calls made on one T2RecordQueueProcessor
\* (python/multiharp_toolkit/tttr_record.py)
VARIABLES via, user_calls, output_shutdowns

counterVars ==
  <<package, number_of_counts, coincidence_counters, raised, events, pending>>

decoderVars ==
  <<decoder, source, ptu_version, overflow_correction, held_truetime,
    raw_records, decoded, ch_arr, queue_send, decoder_raised>>

deviceVars == <<test_enabled, pc, queue, oflcorrection, calls, device_raised>>

stubVars ==
  <<stub_pc, output_queue, is_shutdown, measurement_time, now, start_time,
    wake_at>>

pipeVars ==
  <<ready, running, proc_pc, batch_in_hand, closed, processed_queue,
    processed_shutdown, cons_pc, sent, received, pipe_raised>>

handleVars == <<is_open, num_inputs, inputs, ops>>

sinkVars ==
  <<input_queue, sink_shutdown, sink_pc, sink_raised, batch_dict, chunk_count,
    files, record, chunk_rows, file_rows, puts>>

headerVars == <<inputfile, cursor, tagDataList, parse_pc>>

g2Vars ==
  <<g2_pc, result_events, peak1, peak2, peak_width, df, peak_start_1,
    peak_end_1, peak_start_2, peak_end_2, channel_swapped, window_of,
    counter, res, g2_raised>>

histVars == <<hist_pc, hist_base_ch, hist_channels, frame, hist_df>>

onceVars == <<via, user_calls, output_shutdowns>>

vars == <<counterVars, decoderVars, deviceVars, stubVars, pipeVars, handleVars, sinkVars, headerVars, g2Vars, histVars, onceVars>>

(***************************************************************************)
(* Each specification below runs one component; the variables of the       *)
(* other components stay at these values.                                  *)
(***************************************************************************)
CounterIdle ==
  /\ package = "python"
  /\ number_of_counts = <<>>
  /\ coincidence_counters = <<>>
  /\ raised = "none"
  /\ events = <<>>
  /\ pending = <<>>

DecoderIdle ==
  /\ decoder = "none"
  /\ source = "none"
  /\ ptu_version = 0
  /\ overflow_correction = 0
  /\ held_truetime = 0
  /\ raw_records = <<>>
  /\ decoded = <<>>
  /\ ch_arr = <<>>
  /\ queue_send = <<>>
  /\ decoder_raised = "none"

DeviceIdle ==
  /\ test_enabled = FALSE
  /\ pc = "none"
  /\ queue = <<>>
  /\ oflcorrection = 0
  /\ calls = <<>>
  /\ device_raised = "none"

StubIdle ==
  /\ stub_pc = "none"
  /\ output_queue = <<>>
  /\ is_shutdown = FALSE
  /\ measurement_time = 0
  /\ now = 0
  /\ start_time = 0
  /\ wake_at = 0

PipeIdle ==
  /\ ready = <<>>
  /\ running = "none"
  /\ proc_pc = "none"
  /\ batch_in_hand = <<>>
  /\ closed = FALSE
  /\ processed_queue = <<>>
  /\ processed_shutdown = FALSE
  /\ cons_pc = "none"
  /\ sent = <<>>
  /\ received = <<>>
  /\ pipe_raised = "none"

HandleIdle ==
  /\ is_open = FALSE
  /\ num_inputs = 0
  /\ inputs = 0
  /\ ops = <<>>

SinkIdle ==
  /\ input_queue = <<>>
  /\ sink_shutdown = FALSE
  /\ sink_pc = "none"
  /\ sink_raised = "none"
  /\ batch_dict = <<>>
  /\ chunk_count = 0
  /\ files = <<>>
  /\ record = <<>>
  /\ chunk_rows = 0
  /\ file_rows = 0
  /\ puts = 0

HeaderIdle ==
  /\ inputfile = [magic |-> "none", tags |-> <<>>]
  /\ cursor = 0
  /\ tagDataList = <<>>
  /\ parse_pc = "none"

G2Idle ==
  /\ g2_pc = "idle"
  /\ result_events = <<>>
  /\ peak1 = 0
  /\ peak2 = 0
  /\ peak_width = 0
  /\ df = <<>>
  /\ peak_start_1 = 0
  /\ peak_end_1 = 0
  /\ peak_start_2 = 0
  /\ peak_end_2 = 0
  /\ channel_swapped = FALSE
  /\ window_of = <<>>
  /\ counter = <<>>
  /\ res = <<>>
  /\ g2_raised = "none"

HistIdle ==
  /\ hist_pc = "idle"
  /\ hist_base_ch = 0
  /\ hist_channels = <<>>
  /\ frame = <<>>
  /\ hist_df = <<>>

OnceIdle ==
  /\ via = "none"
  /\ user_calls = <<>>
  /\ output_shutdowns = 0

(***************************************************************************)
(* Bounds of the exploration.                                              *)
(***************************************************************************)
MaxEvents == 3

MaxTime == 2

(***************************************************************************)
(* ChannelInfo                                                             *)
(***************************************************************************)
ChannelInfo(ch, peak_start, peak_end) ==
  [ch |-> ch, peak_start |-> peak_start, peak_end |-> peak_end]

\* ChannelInfo(ch): the defaults peak_start = 0, peak_end = 0; also the
\* lifting of a bare channel number in CoincidenceCounter.__init__.
PlainChannel(ch) == ChannelInfo(ch, 0, 0)

\* variant: the window includes its two ends
in_peak_window_closed(ch_info, truetime) ==
  ch_info.peak_start <= truetime /\ truetime <= ch_info.peak_end

in_peak_window(ch_info, truetime) ==
  ch_info.peak_start < truetime /\ truetime < ch_info.peak_end

\* src/multiharp_toolkit only
ChannelInfo_is_ready(ch_info) ==
  ch_info.peak_start > 0 /\ ch_info.peak_end > 0

(***************************************************************************)
(* CoincidenceCounterState                                                 *)
(* channels is 1-based here: Python's self.channels[self.i] is             *)
(* channels[i + 1].                                                        *)
(***************************************************************************)
CoincidenceCounterState(base_ch, target_channels) ==
  [base_ch       |-> base_ch,
   channels      |-> <<base_ch>> \o target_channels,
   length        |-> 1 + Len(target_channels),
   i             |-> 0,
   count         |-> 0,
   base_start    |-> 0,
   last_truetime |-> 0]

\* self.channels[self.i] raises IndexError when i is not a valid index.
State_process_raises(m, ch) ==
  ch # m.base_ch.ch /\ ~(m.i + 1 \in 1..Len(m.channels))

\* Variants of the machine step, each one slip away from the source.
\* a base event keeps the progress already made
State_process_keepProgress(m, ch, truetime) ==
  LET m1 == [m EXCEPT !.last_truetime = truetime]
  IN  IF ch = m.base_ch.ch
        THEN [m1 EXCEPT !.base_start = truetime, !.i = IF @ = 0 THEN 1 ELSE @]
      ELSE IF State_process_raises(m, ch)
        THEN m1
      ELSE
        LET ch_info == m1.channels[m1.i + 1]
            diff    == truetime - m1.base_start
            m2      == IF ch = ch_info.ch /\ in_peak_window(ch_info, diff)
                         THEN [m1 EXCEPT !.i = @ + 1]
                         ELSE m1
        IN  IF m2.i = m2.length
              THEN [m2 EXCEPT !.count = @ + 1, !.i = 0]
              ELSE m2

\* a completed tuple is counted but i is not reset
State_process_noReset(m, ch, truetime) ==
  LET m1 == [m EXCEPT !.last_truetime = truetime]
  IN  IF ch = m.base_ch.ch
        THEN [m1 EXCEPT !.base_start = truetime, !.i = 1]
      ELSE IF State_process_raises(m, ch)
        THEN m1
      ELSE
        LET ch_info == m1.channels[m1.i + 1]
            diff    == truetime - m1.base_start
            m2      == IF ch = ch_info.ch /\ in_peak_window(ch_info, diff)
                         THEN [m1 EXCEPT !.i = @ + 1]
                         ELSE m1
        IN  IF m2.i = m2.length
              THEN [m2 EXCEPT !.count = @ + 1]
              ELSE m2

\* a completed tuple resets i and base_start but is not counted
State_process_noCount(m, ch, truetime) ==
  LET m1 == [m EXCEPT !.last_truetime = truetime]
  IN  IF ch = m.base_ch.ch
        THEN [m1 EXCEPT !.base_start = truetime, !.i = 1]
      ELSE IF State_process_raises(m, ch)
        THEN m1
      ELSE
        LET ch_info == m1.channels[m1.i + 1]
            diff    == truetime - m1.base_start
            m2      == IF ch = ch_info.ch /\ in_peak_window(ch_info, diff)
                         THEN [m1 EXCEPT !.i = @ + 1]
                         ELSE m1
        IN  IF m2.i = m2.length
              THEN [m2 EXCEPT !.i = 0]
              ELSE m2

\* an event on the expected channel outside its window drops the tuple
State_process_dropOnMiss(m, ch, truetime) ==
  LET m1 == [m EXCEPT !.last_truetime = truetime]
  IN  IF ch = m.base_ch.ch
        THEN [m1 EXCEPT !.base_start = truetime, !.i = 1]
      ELSE IF State_process_raises(m, ch)
        THEN m1
      ELSE
        LET ch_info == m1.channels[m1.i + 1]
            diff    == truetime - m1.base_start
            m2      == IF ch = ch_info.ch
                         THEN IF in_peak_window(ch_info, diff)
                                THEN [m1 EXCEPT !.i = @ + 1]
                                ELSE [m1 EXCEPT !.i = 0]
                         ELSE m1
        IN  IF m2.i = m2.length
              THEN [m2 EXCEPT !.count = @ + 1, !.i = 0]
              ELSE m2

\* a completed tuple re-arms on the same base event
State_process_rearm(m, ch, truetime) ==
  LET m1 == [m EXCEPT !.last_truetime = truetime]
  IN  IF ch = m.base_ch.ch
        THEN [m1 EXCEPT !.base_start = truetime, !.i = 1]
      ELSE IF State_process_raises(m, ch)
        THEN m1
      ELSE
        LET ch_info == m1.channels[m1.i + 1]
            diff    == truetime - m1.base_start
            m2      == IF ch = ch_info.ch /\ in_peak_window(ch_info, diff)
                         THEN [m1 EXCEPT !.i = @ + 1]
                         ELSE m1
        IN  IF m2.i = m2.length
              THEN [m2 EXCEPT !.count = @ + 1, !.i = m2.length - 1]
              ELSE m2

\* an event on any other channel drops the tuple
State_process_adjacent(m, ch, truetime) ==
  LET m1 == [m EXCEPT !.last_truetime = truetime]
  IN  IF ch = m.base_ch.ch
        THEN [m1 EXCEPT !.base_start = truetime, !.i = 1]
      ELSE IF State_process_raises(m, ch)
        THEN m1
      ELSE
        LET ch_info == m1.channels[m1.i + 1]
            diff    == truetime - m1.base_start
            m2      == IF ch = ch_info.ch
                         THEN IF in_peak_window(ch_info, diff)
                                THEN [m1 EXCEPT !.i = @ + 1]
                                ELSE m1
                         ELSE [m1 EXCEPT !.i = 0]
        IN  IF m2.i = m2.length
              THEN [m2 EXCEPT !.count = @ + 1, !.i = 0]
              ELSE m2

State_process(m, ch, truetime) ==
  LET m1 == [m EXCEPT !.last_truetime = truetime]
  IN  IF ch = m.base_ch.ch
        THEN [m1 EXCEPT !.base_start = truetime, !.i = 1]
      ELSE IF State_process_raises(m, ch)
        THEN m1
      ELSE
        LET ch_info == m1.channels[m1.i + 1]
            diff    == truetime - m1.base_start
            m2      == IF ch = ch_info.ch /\ in_peak_window(ch_info, diff)
                         THEN [m1 EXCEPT !.i = @ + 1]
                         ELSE m1
        IN  IF m2.i = m2.length
              THEN [m2 EXCEPT !.count = @ + 1, !.i = 0]
              ELSE m2

\* src/multiharp_toolkit only
State_is_ready(m) ==
  \A j \in 2..Len(m.channels) : ChannelInfo_is_ready(m.channels[j])

(***************************************************************************)
(* CoincidenceCounter                                                      *)
(***************************************************************************)
TupleChannels(target) == {target[j].ch : j \in 1..Len(target)}

\* the set(target_channels) of CoincidenceCounter.__init__
target_channels(coincidence_targets) ==
  UNION {TupleChannels(coincidence_targets[k]) :
           k \in 1..Len(coincidence_targets)}

\* CoincidenceCounter.__init__ (the draft is constructed with its default
\* histogram_targets = [], so it has no HistogramState).
CoincidenceCounter(coincidence_targets) ==
  [number_of_counts |-> [c \in target_channels(coincidence_targets) |-> 0],
   coincidence_counters |->
     [k \in 1..Len(coincidence_targets) |->
        CoincidenceCounterState(Head(coincidence_targets[k]),
                                Tail(coincidence_targets[k]))],
   raised |-> "none"]

\* for c in self.coincidence_counters: [if c.is_ready:] c.process(ch, truetime)
\* An exception in one machine's step leaves the loop.
RECURSIVE Dispatch(_, _, _, _, _)
Dispatch(pkg, cs, k, ch, truetime) ==
  IF k > Len(cs)
    THEN [coincidence_counters |-> cs, raised |-> "none"]
  ELSE IF pkg = "src" /\ ~State_is_ready(cs[k])
    THEN Dispatch(pkg, cs, k + 1, ch, truetime)
  ELSE IF State_process_raises(cs[k], ch)
    THEN [coincidence_counters |->
            [cs EXCEPT ![k] = State_process(cs[k], ch, truetime)],
          raised |-> "IndexError"]
  ELSE Dispatch(pkg, [cs EXCEPT ![k] = State_process(cs[k], ch, truetime)],
                k + 1, ch, truetime)

\* variant: no early return for a channel of no tuple
Counter_process_noGuard(pkg, cc, ch, truetime) ==
  LET d == Dispatch(pkg, cc.coincidence_counters, 1, ch, truetime)
  IN  [number_of_counts     |->
         IF ch \in DOMAIN cc.number_of_counts
           THEN [cc.number_of_counts EXCEPT ![ch] = @ + 1]
           ELSE cc.number_of_counts,
       coincidence_counters |-> d.coincidence_counters,
       raised               |-> d.raised]

\* variant: an event is counted only when it moved some machine
Counter_process_countMoves(pkg, cc, ch, truetime) ==
  IF ch \notin DOMAIN cc.number_of_counts
    THEN cc
    ELSE LET d == Dispatch(pkg, cc.coincidence_counters, 1, ch, truetime)
             moved == \E k \in 1..Len(cc.coincidence_counters) :
                        \/ d.coincidence_counters[k].i # cc.coincidence_counters[k].i
                        \/ d.coincidence_counters[k].count
                             # cc.coincidence_counters[k].count
         IN  [number_of_counts     |->
                IF moved THEN [cc.number_of_counts EXCEPT ![ch] = @ + 1]
                         ELSE cc.number_of_counts,
              coincidence_counters |-> d.coincidence_counters,
              raised               |-> d.raised]

Counter_process(pkg, cc, ch, truetime) ==
  IF ch \notin DOMAIN cc.number_of_counts
    THEN cc
    ELSE LET d == Dispatch(pkg, cc.coincidence_counters, 1, ch, truetime)
         IN  [number_of_counts     |-> [cc.number_of_counts EXCEPT ![ch] = @ + 1],
              coincidence_counters |-> d.coincidence_counters,
              raised               |-> d.raised]

(***************************************************************************)
(* Inputs.                                                                 *)
(***************************************************************************)
Event(ch, truetime) == [ch |-> ch, t |-> truetime]

\* tests/test_coincidence_counter.py: coincidence_channels, and the machine
\* of test_one_coincidencounter (windows (1.0, 2.0) and (3.0, 4.0)).
coincidence_channels ==
  << <<PlainChannel(0), ChannelInfo(1, 2, 4), ChannelInfo(2, 6, 8)>> >>

\* test_init: bare channel numbers, lifted to zero windows.
init_targets ==
  << <<PlainChannel(0), PlainChannel(1)>>,
     <<PlainChannel(0), PlainChannel(2)>>,
     <<PlainChannel(0), PlainChannel(1), PlainChannel(2)>> >>

\* Scenario S4 of the specification: windows (0, 1) and (2, 3).
strict_targets ==
  << <<PlainChannel(0), ChannelInfo(1, 0, 2), ChannelInfo(2, 4, 6)>> >>

\* One pair; channel 2 is unknown to this counter.
pair_targets ==
  << <<PlainChannel(0), ChannelInfo(1, 0, 2)>> >>

\* The three machines of calc_g2: [0, 1, 2], [0, 2], [0, 1].
g2_targets ==
  << <<PlainChannel(0), ChannelInfo(1, 0, 2), ChannelInfo(2, 1, 3)>>,
     <<PlainChannel(0), ChannelInfo(2, 1, 3)>>,
     <<PlainChannel(0), ChannelInfo(1, 0, 2)>> >>

\* Two machines with different base channels, both windows above 0.
mixed_targets ==
  << <<PlainChannel(1), ChannelInfo(2, 1, 3)>>,
     <<PlainChannel(0), ChannelInfo(1, 1, 3)>> >>

\* A tuple whose last channel is its base channel: len(set(target)) >= 2
\* holds (the ChannelInfo objects are distinct), so __init__ accepts it.
rebase_targets ==
  << <<PlainChannel(0), ChannelInfo(1, 0, 2), ChannelInfo(0, 1, 3)>> >>

Targets ==
  {coincidence_channels, init_targets, strict_targets, pair_targets,
   g2_targets, mixed_targets, rebase_targets}

\* The channels of the events: every channel that some configuration names.
\* Channel 2 is unknown to the counter of pair_targets.
Channels ==
  UNION {target_channels(coincidence_targets) : coincidence_targets \in Targets}

\* test_one_coincidencounter / scenario S3:
\* (0,10) (1,11.5) (2,13.5) (0,24) (0,30)
S3Events ==
  <<Event(0, 20), Event(1, 23), Event(2, 27), Event(0, 48), Event(0, 60)>>

\* scenario S4: (0,0) (1,1.0) (2,3.0)
S4Events == <<Event(0, 0), Event(1, 2), Event(2, 6)>>

\* test_process_ignore_unknown_ch: process(10, 10.0)
UnknownEvents == <<Event(10, 20)>>

\* test_process_timediff / test_count_coincidence:
\* (0,10) (1,20) (0,30) (1,40) (2,45) (0,50)
TimediffEvents ==
  <<Event(0, 20), Event(1, 40), Event(0, 60), Event(1, 80), Event(2, 90),
    Event(0, 100)>>

EventLists == {S3Events, S4Events, TimediffEvents, UnknownEvents}

(***************************************************************************)
(* State machine.                                                          *)
(*   package               which source tree's CoincidenceCounter runs     *)
(*   number_of_counts      CoincidenceCounter.number_of_counts             *)
(*   coincidence_counters  CoincidenceCounter.coincidence_counters         *)
(*   raised                exception that ended the program, or "none"     *)
(*   events                the events passed to process so far             *)
(*   pending               process_events: the events still to iterate     *)
(***************************************************************************)
Init ==
  /\ package \in {"python", "src"}
  /\ \E coincidence_targets \in Targets :
       /\ \A k \in 1..Len(coincidence_targets) :
            Len(coincidence_targets[k]) >= 2
       /\ LET cc == CoincidenceCounter(coincidence_targets)
          IN  /\ number_of_counts = cc.number_of_counts
              /\ coincidence_counters = cc.coincidence_counters
              /\ raised = cc.raised
  /\ events = <<>>
  /\ pending = <<>>
  /\ DecoderIdle /\ DeviceIdle /\ StubIdle /\ PipeIdle /\ HandleIdle /\ SinkIdle /\ HeaderIdle /\ G2Idle /\ HistIdle /\ OnceIdle

Self == [number_of_counts     |-> number_of_counts,
         coincidence_counters |-> coincidence_counters,
         raised               |-> raised]

\* counter.process(ch, truetime)
Process(ch, truetime) ==
  /\ raised = "none"
  /\ pending = <<>>
  /\ Len(events) < MaxEvents
  /\ LET cc == Counter_process(package, Self, ch, truetime)
     IN  /\ number_of_counts' = cc.number_of_counts
         /\ coincidence_counters' = cc.coincidence_counters
         /\ raised' = cc.raised
  /\ events' = Append(events, Event(ch, truetime))
  /\ UNCHANGED <<package, pending, decoderVars, deviceVars, stubVars, pipeVars, handleVars, sinkVars, headerVars, g2Vars, histVars, onceVars>>

\* counter.process_events(evs) on a fresh counter: enter the loop
ProcessEvents(evs) ==
  /\ raised = "none"
  /\ pending = <<>>
  /\ events = <<>>
  /\ pending' = evs
  /\ UNCHANGED <<package, number_of_counts, coincidence_counters, raised, events,
               decoderVars, deviceVars, stubVars, pipeVars, handleVars, sinkVars, headerVars, g2Vars, histVars, onceVars>>

\* one iteration of "for ev in events: self.process(*ev)"
ProcessEventsStep ==
  /\ raised = "none"
  /\ pending # <<>>
  /\ LET ev == Head(pending)
         cc == Counter_process(package, Self, ev.ch, ev.t)
     IN  /\ number_of_counts' = cc.number_of_counts
         /\ coincidence_counters' = cc.coincidence_counters
         /\ raised' = cc.raised
         /\ events' = Append(events, ev)
  /\ pending' = Tail(pending)
  /\ UNCHANGED <<package, decoderVars, deviceVars, stubVars, pipeVars, handleVars, sinkVars, headerVars, g2Vars, histVars, onceVars>>

Next ==
  \/ \E ch \in Channels, truetime \in 0..MaxTime : Process(ch, truetime)
  \/ \E evs \in EventLists : ProcessEvents(evs)
  \/ ProcessEventsStep

Spec == Init /\ [][Next]_vars

(***************************************************************************)
(* Whole runs, computed with the same steps.                               *)
(***************************************************************************)
\* process_events(evs) on the counter cc, run to its end (or to an exception)
RECURSIVE process_events(_, _, _)
process_events(pkg, cc, evs) ==
  IF evs = <<>> \/ cc.raised # "none"
    THEN cc
    ELSE process_events(pkg, Counter_process(pkg, cc, Head(evs).ch, Head(evs).t),
                        Tail(evs))

\* a CoincidenceCounterState used on its own, as test_one_coincidencounter
\* does: every event of evs is passed to its process
RECURSIVE RunAlone(_, _)
RunAlone(m, evs) ==
  IF evs = <<>> \/ State_process_raises(m, Head(evs).ch)
    THEN m
    ELSE RunAlone(State_process(m, Head(evs).ch, Head(evs).t), Tail(evs))

(***************************************************************************)
(* Vocabulary of the properties.                                           *)
(***************************************************************************)
Machines == 1..Len(coincidence_counters)

\* the tuples the running counter was constructed from
TargetsOf(cs) == [k \in 1..Len(cs) |-> cs[k].channels]

FreshMachine(m) == CoincidenceCounterState(m.base_ch, Tail(m.channels))

\* the channels that appear in some configured tuple
KnownChannels ==
  UNION {TupleChannels(coincidence_counters[k].channels) : k \in Machines}

\* this step passed one more event to CoincidenceCounter.process
Stepped == Len(events') = Len(events) + 1

\* the event of the step (in the new state: the last event processed)
Last == events[Len(events)]

\* the step called machine k's process
Fed(k) ==
  /\ Stepped
  /\ Last'.ch \in KnownChannels
  /\ package = "python" \/ State_is_ready(coincidence_counters[k])

\* the i-th spec of machine m (0-based, as in the source)
Spec_i(m) == m.channels[m.i + 1]

\* the counter as it was before the last event
Before ==
  process_events(package, CoincidenceCounter(TargetsOf(coincidence_counters)),
                 SubSeq(events, 1, Len(events) - 1))

\* machine k was called for the last event
WasFed(k) ==
  /\ events # <<>>
  /\ Last.ch \in KnownChannels
  /\ package = "python" \/ State_is_ready(coincidence_counters[k])

(***************************************************************************)
(* Properties of the machine step (CoincidenceCounterState.process).       *)
(***************************************************************************)
\* C1: whatever its progress i and its base_start were, a machine that
\* processes an event on its base channel has i = 1 and base_start = the
\* event's timestamp afterwards, and its count is unchanged.
C1_BaseEventRestarts ==
  [][\A k \in Machines :
       (Fed(k) /\ Last'.ch = coincidence_counters[k].base_ch.ch)
         => /\ coincidence_counters'[k].i = 1
            /\ coincidence_counters'[k].base_start = Last'.t
            /\ coincidence_counters'[k].count = coincidence_counters[k].count]_vars

\* a base event arrived while a machine had progress i = 2, and a different
\* base_start: the progress was abandoned
C1_Witness ==
  \E k \in Machines :
    /\ WasFed(k)
    /\ Last.ch = coincidence_counters[k].base_ch.ch
    /\ Before.coincidence_counters[k].i = 2
    /\ Before.coincidence_counters[k].base_start # Last.t
    /\ coincidence_counters[k].i = 1
    /\ coincidence_counters[k].base_start = Last.t

\* machine k took its step for a non-base event on its expected channel
OnExpected(k) ==
  /\ Fed(k)
  /\ Last'.ch # coincidence_counters[k].base_ch.ch
  /\ Last'.ch = Spec_i(coincidence_counters[k]).ch

\* the delay of the step's event from machine k's base_start
Delay(k) == Last'.t - coincidence_counters[k].base_start

\* machine k's progress moved on: i + 1, or the tuple was completed
Advanced(k) ==
  \/ coincidence_counters'[k].i = coincidence_counters[k].i + 1
  \/ /\ coincidence_counters'[k].i = 0
     /\ coincidence_counters'[k].count = coincidence_counters[k].count + 1

\* C2: the window comparison is strict on both ends: an event on the
\* expected channel advances the machine exactly when peak_start < delay <
\* peak_end, and a delay equal to peak_start or peak_end leaves i alone;
\* the events (0,0) (1,1.0) (2,3.0) against the windows (0,1) and (2,3)
\* give count 0.
C2_StrictWindow ==
  [][/\ \A k \in Machines :
          OnExpected(k) =>
            /\ Advanced(k) <=>
                 /\ Spec_i(coincidence_counters[k]).peak_start < Delay(k)
                 /\ Delay(k) < Spec_i(coincidence_counters[k]).peak_end
            /\ (\/ Delay(k) = Spec_i(coincidence_counters[k]).peak_start
                \/ Delay(k) = Spec_i(coincidence_counters[k]).peak_end)
                 => /\ coincidence_counters'[k].i = coincidence_counters[k].i
                    /\ coincidence_counters'[k].count = coincidence_counters[k].count
     /\ (TargetsOf(coincidence_counters') = strict_targets
           /\ events' = S4Events /\ pending' = <<>>)
          => coincidence_counters'[1].count = 0]_vars

\* the S4 stream has been processed by a machine that was fed it: both inner
\* events sat on a window boundary and the machine still waits at i = 1
C2_Witness ==
  /\ package = "python"
  /\ TargetsOf(coincidence_counters) = strict_targets
  /\ events = S4Events
  /\ pending = <<>>
  /\ coincidence_counters[1].i = 1
  /\ coincidence_counters[1].count = 0

\* C3: after every step 0 <= i < n for every machine, and the lookup of the
\* i-th channel spec has never been out of range.
C3_ProgressInRange ==
  /\ raised = "none"
  /\ \A k \in Machines :
       /\ 0 <= coincidence_counters[k].i
       /\ coincidence_counters[k].i < coincidence_counters[k].length
       /\ coincidence_counters[k].length = Len(coincidence_counters[k].channels)

\* a machine completed a tuple (i reached n) and is back at 0, and takes
\* further events
C3_Witness ==
  \E k \in Machines :
    /\ WasFed(k)
    /\ Before.coincidence_counters[k].count >= 1
    /\ Before.coincidence_counters[k].i = 0
    /\ Last.ch # coincidence_counters[k].base_ch.ch

\* the step's event is on the last spec's channel of machine k, which waits
\* for it at i = n - 1, and its delay is strictly inside that spec's window
Completes(k) ==
  /\ Fed(k)
  /\ coincidence_counters[k].i = coincidence_counters[k].length - 1
  /\ Last'.ch = Spec_i(coincidence_counters[k]).ch
  /\ Spec_i(coincidence_counters[k]).peak_start < Delay(k)
  /\ Delay(k) < Spec_i(coincidence_counters[k]).peak_end

\* count + 1, i = 0, base_start as it was
Counted(k) ==
  /\ coincidence_counters'[k].count = coincidence_counters[k].count + 1
  /\ coincidence_counters'[k].i = 0
  /\ coincidence_counters'[k].base_start = coincidence_counters[k].base_start

\* the stream (0,10) (1,11.5) (2,13.5) (0,24) (0,30) against the windows
\* (1,2) and (3,4): i = 1 after t = 24 and after t = 30, final count 1
S3Outcome ==
  TargetsOf(coincidence_counters') = coincidence_channels =>
    /\ events' = SubSeq(S3Events, 1, 4) => coincidence_counters'[1].i = 1
    /\ events' = S3Events => /\ coincidence_counters'[1].i = 1
                             /\ coincidence_counters'[1].count = 1

\* C4 as stated: a machine at i = n - 1 that receives an event on the
\* (n-1)-th spec's channel with a delay strictly inside its window gets
\* count + 1, i = 0 and keeps base_start; every other step leaves count alone.
C4_Original ==
  [][/\ \A k \in Machines :
          /\ Completes(k) => Counted(k)
          /\ ~Completes(k) =>
               coincidence_counters'[k].count = coincidence_counters[k].count
     /\ S3Outcome]_vars

\* C4 (amended): the same, for an event whose channel is not the machine's
\* base channel: a base-channel event restarts the tuple even when the
\* (n-1)-th spec names the base channel and the delay is inside its window.
C4_CompletionCounts ==
  [][/\ \A k \in Machines :
          LET completes == Completes(k)
                             /\ Last'.ch # coincidence_counters[k].base_ch.ch
          IN  /\ completes => Counted(k)
              /\ ~completes =>
                   coincidence_counters'[k].count = coincidence_counters[k].count
     /\ S3Outcome]_vars

\* the last event completed a tuple of a machine that was at i = n - 1
C4_Witness ==
  \E k \in Machines :
    /\ WasFed(k)
    /\ Last.ch # coincidence_counters[k].base_ch.ch
    /\ Before.coincidence_counters[k].i = coincidence_counters[k].length - 1
    /\ Last.ch = Spec_i(Before.coincidence_counters[k]).ch
    /\ coincidence_counters[k].count = Before.coincidence_counters[k].count + 1
    /\ coincidence_counters[k].i = 0
    /\ coincidence_counters[k].base_start # Last.t

\* C5: a non-base event that is not on the expected i-th channel, or is on
\* it with a delay outside the window, leaves i, base_start and count of the
\* machine unchanged; a non-base event at i = 0 changes last_truetime only.
C5_MissLeavesMachine ==
  [][\A k \in Machines :
       LET m    == coincidence_counters[k]
           miss == \/ Last'.ch # Spec_i(m).ch
                   \/ ~(Spec_i(m).peak_start < Delay(k)
                         /\ Delay(k) < Spec_i(m).peak_end)
       IN  /\ (Fed(k) /\ Last'.ch # m.base_ch.ch /\ miss)
                => /\ coincidence_counters'[k].i = m.i
                   /\ coincidence_counters'[k].base_start = m.base_start
                   /\ coincidence_counters'[k].count = m.count
           /\ (Fed(k) /\ Last'.ch # m.base_ch.ch /\ m.i = 0)
                => coincidence_counters'[k] =
                     [m EXCEPT !.last_truetime = Last'.t]]_vars

\* a machine with progress i >= 1 received an event on its expected channel
\* outside the window and still waits on that channel
C5_Witness ==
  \E k \in Machines :
    LET b == Before.coincidence_counters[k]
    IN  /\ WasFed(k)
        /\ b.i >= 1
        /\ Last.ch # b.base_ch.ch
        /\ Last.ch = Spec_i(b).ch
        /\ ~in_peak_window(Spec_i(b), Last.t - b.base_start)
        /\ coincidence_counters[k].i = b.i
        /\ coincidence_counters[k].last_truetime = Last.t
        /\ b.last_truetime # Last.t

(***************************************************************************)
(* Properties of the counter (CoincidenceCounter.process).                 *)
(***************************************************************************)
\* C6: for every machine k with base channel c, number_of_counts[c] is at
\* least machine k's coincidence count.
C6_SinglesBoundCount ==
  \A k \in Machines :
    number_of_counts[coincidence_counters[k].base_ch.ch]
      >= coincidence_counters[k].count

\* a machine has counted every base event it saw, and the last event, a
\* second one inside the last window of the same base event, was not counted
C6_Witness ==
  \E k \in Machines :
    LET b == Before.coincidence_counters[k]
    IN  /\ WasFed(k)
        /\ coincidence_counters[k].count >= 1
        /\ coincidence_counters[k].count = number_of_counts[b.base_ch.ch]
        /\ b.count = coincidence_counters[k].count
        /\ Last.ch = b.channels[b.length].ch
        /\ in_peak_window(b.channels[b.length], Last.t - b.base_start)

\* evs without the events on channels that machine m's tuple does not name
Referenced(m, evs) ==
  SelectSeq(evs, LAMBDA e : e.ch \in TupleChannels(m.channels))

\* C7: the events on channels a machine's tuple does not reference do not
\* matter to its count: the count after the stream is the count the same
\* counter gives that machine on the stream without those events.
C7_UnreferencedEventsIgnored ==
  \A k \in Machines :
    coincidence_counters[k].count =
      process_events(package,
                     CoincidenceCounter(TargetsOf(coincidence_counters)),
                     Referenced(coincidence_counters[k], events)
                    ).coincidence_counters[k].count

\* a machine counted a tuple although an event on a channel it does not
\* reference came between the events of the tuple
C7_Witness ==
  \E k \in Machines :
    /\ coincidence_counters[k].count >= 1
    /\ Len(events) >= 3
    /\ events[1].ch = coincidence_counters[k].base_ch.ch
    /\ events[2].ch \notin TupleChannels(coincidence_counters[k].channels)
    /\ events[3].ch \in TupleChannels(coincidence_counters[k].channels)
    /\ events[3].ch # coincidence_counters[k].base_ch.ch

\* C8: process(ch, t) for a channel of none of the configured tuples changes
\* no entry of number_of_counts and no machine's i, base_start,
\* last_truetime or count.
C8_UnknownChannelIgnored ==
  [][(Stepped /\ Last'.ch \notin KnownChannels)
       => /\ number_of_counts' = number_of_counts
          /\ coincidence_counters' = coincidence_counters]_vars

\* an event on an unknown channel, with a new timestamp, arrived while a
\* machine had a tuple in flight
C8_Witness ==
  /\ events # <<>>
  /\ Last.ch \notin KnownChannels
  /\ \E k \in Machines :
       /\ coincidence_counters[k].i >= 1
       /\ coincidence_counters[k].last_truetime # Last.t
  /\ \E c \in KnownChannels : number_of_counts[c] >= 1

\* the events of evs on channel c
OnChannel(evs, c) == {j \in 1..Len(evs) : evs[j].ch = c}

\* C9: number_of_counts has one entry per channel of the configured tuples,
\* and the entry of channel c is the number of events on c processed so far,
\* whether or not they advanced a machine.
C9_SinglesCountEvents ==
  /\ DOMAIN number_of_counts = KnownChannels
  /\ \A c \in KnownChannels :
       number_of_counts[c] = Cardinality(OnChannel(events, c))

\* test_process_timediff: {0: 3, 1: 2, 2: 1}; only two of the six events
\* advanced the machine
C9_Witness ==
  /\ TargetsOf(coincidence_counters) = coincidence_channels
  /\ events = TimediffEvents
  /\ pending = <<>>
  /\ number_of_counts = (0 :> 3 @@ 1 :> 2 @@ 2 :> 1)
  /\ coincidence_counters[1].count = 0

\* targets in the opposite order
Reversed(targets) ==
  [k \in 1..Len(targets) |-> targets[Len(targets) + 1 - k]]

SameProgress(m1, m2) ==
  /\ m1.i = m2.i
  /\ m1.base_start = m2.base_start
  /\ m1.count = m2.count

\* C10: every machine of a counter is fed every event and is independent of
\* the others: its (i, base_start, count) is that of the same machine run
\* alone over the same stream, and that of the same machine when the tuples
\* are listed in the opposite order.
C10_MachinesIndependent ==
  \A k \in Machines :
    /\ SameProgress(coincidence_counters[k],
                    RunAlone(FreshMachine(coincidence_counters[k]), events))
    /\ SameProgress(coincidence_counters[k],
                    process_events(package,
                                   CoincidenceCounter(
                                     Reversed(TargetsOf(coincidence_counters))),
                                   events
                                  ).coincidence_counters[Len(coincidence_counters) + 1 - k])

\* the same, for the counter of python/multiharp_toolkit
C10_PythonPackage == package = "python" => C10_MachinesIndependent

(***************************************************************************)
(* Record decoders.                                                        *)
(*   python/multiharp_toolkit/tttr_record.py   T2RecordQueueProcessor      *)
(*   src/multiharp_toolkit/stream_parser.py    StreamParser                *)
(*   src/multiharp_toolkit/ptu_parser.py       Parser                      *)
(*   src/mh_file_parser/parser.py              readHT2                     *)
(*                                                                         *)
(* A raw T2 record is an unsigned 32-bit word.  It is held as its two      *)
(* 16-bit halves, hi (bits 31..16) and lo (bits 15..0); the shifts and     *)
(* masks of the source are computed on the halves.                         *)
(***************************************************************************)
MaxRecords == 3

\* length of the list __generate_raw_records builds (range(500000) in the
\* source), scaled down
RecordsPerBatch == 2

t2wraparound_v2 == 33554432

resolution == 5

time_resolution == 5

T2WRAPAROUND_V1 == 33552000

T2WRAPAROUND_V2 == 33554432

CHAN_8_SYNC == 256

Word(hi, lo) == [type |-> "int", hi |-> hi, lo |-> lo]

\* the items a raw queue of the src/ package carries besides raw words
MeasStartMarker == [type |-> "MeasStartMarker", hi |-> 0, lo |-> 0]

MeasEndMarker == [type |-> "MeasEndMarker", hi |-> 0, lo |-> 0]

\* raw_record + n
WordPlus(raw_record, n) ==
  LET lo == raw_record.lo + n
  IN  Word((raw_record.hi + (lo \div 65536)) % 65536, lo % 65536)

\* a decoded event: the channel and the time value ts / per
T2Record(ch, ts) == [ch |-> ch, ts |-> ts, per |-> 1]

\* truetime * 0.2 of the capture-file readers: the fraction truetime / 5
times_0_2(ch, value) == [ch |-> ch, ts |-> value, per |-> 5]

split_raw_t2_record(raw_record) ==
  [special  |-> (raw_record.hi \div 32768) % 2,
   channel  |-> (raw_record.hi \div 512) % 64,
   time_tag |-> (raw_record.hi % 512) * 65536 + raw_record.lo]

\* The decoding state a record acts on: the accumulator, the truetime the
\* capture-file readers keep between records, and put, the events this
\* record has appended to the decoder's output.
DecoderState(ofl, tt) ==
  [overflow_correction |-> ofl, truetime |-> tt, put |-> <<>>]

\* variant: the raw channel number is passed on as it is
process_normal_record_noShift(self, channel, time_tag) ==
  LET true_time == self.overflow_correction + time_tag
  IN  [self EXCEPT !.put = Append(@, T2Record(channel, true_time * resolution))]

process_normal_record(self, channel, time_tag) ==
  LET true_time == self.overflow_correction + time_tag
  IN  [self EXCEPT !.put = Append(@, T2Record(channel + 1, true_time * resolution))]

\* variant: an overflow record counts one wraparound whatever its time tag
process_special_records_singleWrap(self, special, channel, time_tag) ==
  IF special # 1 THEN [handled |-> FALSE, self |-> self]
  ELSE IF channel = 63
    THEN [handled |-> TRUE,
          self |-> [self EXCEPT !.overflow_correction = @ + t2wraparound_v2]]
  ELSE IF channel = 0
    THEN LET true_time == self.overflow_correction + time_tag
         IN  [handled |-> TRUE,
              self |-> [self EXCEPT !.put =
                          Append(@, T2Record(CHAN_8_SYNC, true_time * resolution))]]
  ELSE [handled |-> TRUE, self |-> self]

process_special_records(self, special, channel, time_tag) ==
  IF special # 1 THEN [handled |-> FALSE, self |-> self]
  ELSE IF channel = 63
    THEN [handled |-> TRUE,
          self |-> [self EXCEPT !.overflow_correction =
                      IF time_tag = 0 THEN @ + t2wraparound_v2
                      ELSE @ + t2wraparound_v2 * time_tag]]
  ELSE IF channel = 0
    THEN LET true_time == self.overflow_correction + time_tag
         IN  [handled |-> TRUE,
              self |-> [self EXCEPT !.put =
                          Append(@, T2Record(CHAN_8_SYNC, true_time * resolution))]]
  ELSE [handled |-> TRUE, self |-> self]

\* one iteration of the loop of __process_raw_records
process_raw_record(self, raw_record) ==
  LET r  == split_raw_t2_record(raw_record)
      sp == process_special_records(self, r.special, r.channel, r.time_tag)
  IN  IF sp.handled THEN sp.self
      ELSE process_normal_record(self, r.channel, r.time_tag)

convert_timetag_to_relative_timestamp(timetag) == timetag * time_resolution

\* StreamParser.run, the branch of a raw word
StreamParser_record(self, val) ==
  LET special == (val.hi \div 32768) % 2
      channel == (val.hi \div 512) % 64
      timetag == (val.hi % 512) * 65536 + val.lo
  IN  IF special = 1
      THEN LET ofl == IF channel = 63
                      THEN IF timetag = 0
                           THEN self.overflow_correction + T2WRAPAROUND_V2
                           ELSE self.overflow_correction + T2WRAPAROUND_V2 * timetag
                      ELSE self.overflow_correction
           IN  IF channel = 0
               THEN [self EXCEPT
                       !.overflow_correction = ofl,
                       !.put = Append(@, T2Record(channel,
                                 convert_timetag_to_relative_timestamp(ofl + timetag)))]
               ELSE [self EXCEPT !.overflow_correction = ofl]
      ELSE [self EXCEPT
              !.put = Append(@, T2Record(channel + 1,
                        convert_timetag_to_relative_timestamp(
                          self.overflow_correction + timetag)))]

\* variant: a sync record moves the accumulator to its own time
parse_record_syncMovesOfl(self, version, data) ==
  LET special == (data.hi \div 32768) % 2
      channel == (data.hi \div 512) % 64
      timetag == (data.hi % 512) * 65536 + data.lo
  IN  IF special = 1
      THEN IF channel = 0
           THEN [self EXCEPT !.overflow_correction = timetag,
                             !.truetime = timetag,
                             !.put = Append(@, times_0_2(0, timetag))]
           ELSE IF channel = 63
                THEN [self EXCEPT !.overflow_correction = @ + T2WRAPAROUND_V2]
                ELSE self
      ELSE [self EXCEPT !.put = Append(@, times_0_2(channel + 1,
                                    self.overflow_correction + timetag))]

\* Parser.parse_record; version is self.ptu_version
parse_record(self, version, data) ==
  LET special == (data.hi \div 32768) % 2
      channel == (data.hi \div 512) % 64
      timetag == (data.hi % 512) * 65536 + data.lo
  IN  IF special = 1
      THEN LET ofl == IF channel = 63
                      THEN IF version = 1
                           THEN self.overflow_correction + T2WRAPAROUND_V1
                           ELSE IF timetag = 0
                                THEN self.overflow_correction + T2WRAPAROUND_V2
                                ELSE self.overflow_correction + T2WRAPAROUND_V2 * timetag
                      ELSE self.overflow_correction
           IN  IF channel = 0
               THEN [self EXCEPT !.overflow_correction = ofl,
                                 !.truetime = ofl + timetag,
                                 !.put = Append(@, times_0_2(0, ofl + timetag))]
               ELSE [self EXCEPT !.overflow_correction = ofl]
      ELSE [self EXCEPT !.put = Append(@, times_0_2(channel + 1,
                                    self.overflow_correction + timetag))]

\* mh_file_parser.parser.readHT2, one iteration of its loop.  The string
\* slices recordData[0:1], [1:7], [7:32] of the 32-digit binary numeral are
\* bit 31, bits 30..25 and bits 24..0.  tmp[0].append is at the level of
\* "if special == 1", so it runs for every special record with the truetime
\* the loop holds at that moment.
readHT2_record(self, version, recordData) ==
  LET special == (recordData.hi \div 32768) % 2
      channel == (recordData.hi \div 512) % 64
      timetag == (recordData.hi % 512) * 65536 + recordData.lo
  IN  IF special = 1
      THEN LET ofl == IF channel = 63
                      THEN IF version = 1
                           THEN self.overflow_correction + T2WRAPAROUND_V1
                           ELSE IF timetag = 0
                                THEN self.overflow_correction + T2WRAPAROUND_V2
                                ELSE self.overflow_correction + T2WRAPAROUND_V2 * timetag
                      ELSE self.overflow_correction
               tt  == IF channel = 0 THEN ofl + timetag ELSE self.truetime
           IN  [self EXCEPT !.overflow_correction = ofl,
                            !.truetime = tt,
                            !.put = Append(@, times_0_2(0, tt))]
      ELSE [self EXCEPT !.truetime = self.overflow_correction + timetag,
                        !.put = Append(@, times_0_2(channel + 1,
                                  self.overflow_correction + timetag))]

\* StubMultiharpDevice.__generate_raw_records: 0x02000001 + event_time
generate_raw_records ==
  [k \in 1..RecordsPerBatch |-> WordPlus(Word(512, 1), k - 1)]

(***************************************************************************)
(* Raw words the exploration feeds to the decoders.                        *)
(***************************************************************************)
Words ==
  { Word(0, 1),          \* 0x00000001  channel 0, time tag 1
    Word(0, 7),          \* 0x00000007  channel 0, time tag 7
    Word(512, 1),        \* 0x02000001  channel 1, time tag 1
    Word(511, 65535),    \* 0x01FFFFFF  channel 0, time tag 2^25 - 1
    Word(32256, 3),      \* 0x7E000003  channel 63, time tag 3
    Word(32768, 5),      \* 0x80000005  sync, time tag 5
    Word(33280, 3),      \* 0x82000003  external marker 1, time tag 3
    Word(65024, 0),      \* 0xFE000000  overflow, old style
    Word(65024, 2) }     \* 0xFE000002  overflow, two wraparounds

\* the words of a batch of the stub source
StubWords == {generate_raw_records[k] : k \in 1..RecordsPerBatch}

Decoders == {"T2RecordQueueProcessor", "StreamParser", "Parser", "readHT2"}

(***************************************************************************)
(* State machine of the decoders.                                          *)
(*   decoder              which decoder runs                               *)
(*   source               who produces the raw words: "stub" is            *)
(*                        StubMultiharpDevice, whose batches are           *)
(*                        __generate_raw_records() again and again         *)
(*   ptu_version          Parser.ptu_version, version of readHT2           *)
(*   overflow_correction  the accumulator (oflcorrection in src/)          *)
(*   held_truetime        Parser.truetime, truetime of readHT2             *)
(*   raw_records          the items consumed so far                        *)
(*   decoded              the events produced so far (output_queue puts,   *)
(*                        ch_arr/ts_arr appends, events[ch] appends)       *)
(*   ch_arr               StreamParser: events of the batch being decoded  *)
(*   queue_send           StreamParser.queue_send                          *)
(*   decoder_raised       exception that ended the decoder, or "none"      *)
(***************************************************************************)
DecoderInit ==
  /\ decoder \in Decoders
  /\ source \in IF decoder = "T2RecordQueueProcessor"
                THEN {"device", "stub"} ELSE {"device"}
  /\ ptu_version \in IF decoder \in {"Parser", "readHT2"} THEN {1, 2} ELSE {2}
  /\ overflow_correction = 0
  /\ held_truetime = 0
  /\ raw_records = <<>>
  /\ decoded = <<>>
  /\ ch_arr = <<>>
  /\ queue_send = <<>>
  /\ decoder_raised = "none"
  /\ CounterIdle /\ DeviceIdle /\ StubIdle /\ PipeIdle /\ HandleIdle /\ SinkIdle /\ HeaderIdle /\ G2Idle /\ HistIdle /\ OnceIdle

DecoderSelf == DecoderState(overflow_correction, held_truetime)

\* the words the source can deliver next
Delivers ==
  IF source = "stub"
  THEN {generate_raw_records[(Len(raw_records) % RecordsPerBatch) + 1]}
  ELSE Words

\* T2RecordQueueProcessor.__process_raw_records, one record
ProcessRawRecord(raw_record) ==
  /\ decoder = "T2RecordQueueProcessor"
  /\ Len(raw_records) < MaxRecords
  /\ raw_record \in Delivers
  /\ LET d == process_raw_record(DecoderSelf, raw_record)
     IN  /\ overflow_correction' = d.overflow_correction
         /\ decoded' = decoded \o d.put
  /\ raw_records' = Append(raw_records, raw_record)
  /\ UNCHANGED <<decoder, source, ptu_version, held_truetime, ch_arr, queue_send,
                 decoder_raised>>
  /\ UNCHANGED <<counterVars, deviceVars, stubVars, pipeVars, handleVars, sinkVars, headerVars, g2Vars, histVars, onceVars>>

\* StreamParser.run, one val of the batch in hand.  create_file sets
\* oflcorrection to 0 and then calls os.mkdirs, which the os module does not
\* have; close_file uses self.writer, which only create_file assigns.
StreamParserVal(val) ==
  /\ decoder = "StreamParser"
  /\ decoder_raised = "none"
  /\ Len(raw_records) < MaxRecords
  /\ raw_records' = Append(raw_records, val)
  /\ IF val.type = "MeasStartMarker"
     THEN /\ overflow_correction' = 0
          /\ decoder_raised' = "AttributeError"
          /\ UNCHANGED <<decoded, ch_arr>>
     ELSE IF val.type = "MeasEndMarker"
     THEN /\ decoder_raised' = "AttributeError"
          /\ UNCHANGED <<overflow_correction, decoded, ch_arr>>
     ELSE LET d == StreamParser_record(DecoderSelf, val)
          IN  /\ overflow_correction' = d.overflow_correction
              /\ decoded' = decoded \o d.put
              /\ ch_arr' = ch_arr \o d.put
              /\ UNCHANGED decoder_raised
  /\ UNCHANGED <<decoder, source, ptu_version, held_truetime, queue_send>>
  /\ UNCHANGED <<counterVars, deviceVars, stubVars, pipeVars, handleVars, sinkVars, headerVars, g2Vars, histVars, onceVars>>

\* StreamParser.run, after the last val of a batch: the batch is put on
\* queue_send and handed to self.writer, which no create_file has assigned
StreamParserBatchEnd ==
  /\ decoder = "StreamParser"
  /\ decoder_raised = "none"
  /\ raw_records # <<>>
  /\ IF ch_arr # <<>>
     THEN /\ queue_send' = Append(queue_send, ch_arr)
          /\ decoder_raised' = "AttributeError"
          /\ ch_arr' = ch_arr
     ELSE UNCHANGED <<queue_send, decoder_raised, ch_arr>>
  /\ UNCHANGED <<decoder, source, ptu_version, overflow_correction, held_truetime,
                 raw_records, decoded>>
  /\ UNCHANGED <<counterVars, deviceVars, stubVars, pipeVars, handleVars, sinkVars, headerVars, g2Vars, histVars, onceVars>>

\* Parser.parse_record(data)
ParseRecord(data) ==
  /\ decoder = "Parser"
  /\ Len(raw_records) < MaxRecords
  /\ LET d == parse_record(DecoderSelf, ptu_version, data)
     IN  /\ overflow_correction' = d.overflow_correction
         /\ held_truetime' = d.truetime
         /\ decoded' = decoded \o d.put
  /\ raw_records' = Append(raw_records, data)
  /\ UNCHANGED <<decoder, source, ptu_version, ch_arr, queue_send, decoder_raised>>
  /\ UNCHANGED <<counterVars, deviceVars, stubVars, pipeVars, handleVars, sinkVars, headerVars, g2Vars, histVars, onceVars>>

\* readHT2, one record of the file
ReadHT2Record(recordData) ==
  /\ decoder = "readHT2"
  /\ Len(raw_records) < MaxRecords
  /\ LET d == readHT2_record(DecoderSelf, ptu_version, recordData)
     IN  /\ overflow_correction' = d.overflow_correction
         /\ held_truetime' = d.truetime
         /\ decoded' = decoded \o d.put
  /\ raw_records' = Append(raw_records, recordData)
  /\ UNCHANGED <<decoder, source, ptu_version, ch_arr, queue_send, decoder_raised>>
  /\ UNCHANGED <<counterVars, deviceVars, stubVars, pipeVars, handleVars, sinkVars, headerVars, g2Vars, histVars, onceVars>>

DecoderNext ==
  \/ \E raw_record \in Words \cup StubWords : ProcessRawRecord(raw_record)
  \/ \E val \in Words \cup {MeasStartMarker, MeasEndMarker} : StreamParserVal(val)
  \/ StreamParserBatchEnd
  \/ \E data \in Words : ParseRecord(data)
  \/ \E recordData \in Words : ReadHT2Record(recordData)

SpecDecoder == DecoderInit /\ [][DecoderNext]_vars

(***************************************************************************)
(* Vocabulary of the decoder properties.                                   *)
(***************************************************************************)
\* bit n of a raw word, and the number its bits top..bottom spell
Bit(w, n) ==
  IF n >= 16 THEN (w.hi \div (2 ^ (n - 16))) % 2 ELSE (w.lo \div (2 ^ n)) % 2

RECURSIVE BitField(_, _, _)
BitField(w, top, bottom) ==
  IF top < bottom THEN 0
  ELSE 2 * BitField(w, top, bottom + 1) + Bit(w, bottom)

\* this step consumed one item; the item; what the step produced
Consumed == Len(raw_records') = Len(raw_records) + 1

Item == raw_records'[Len(raw_records')]

Produced == SubSeq(decoded', Len(decoded) + 1, Len(decoded'))

IsWord == Item.type = "int"

Special == Bit(Item, 31)

ChannelIndex == BitField(Item, 30, 25)

TimeTag == BitField(Item, 24, 0)

\* the decoders that deliver picosecond events to a queue
Streaming == decoder \in {"T2RecordQueueProcessor", "StreamParser"}

\* C11: a raw record with special = 0 makes the queue processor and the
\* stream parser emit exactly one event, (channel_index + 1,
\* (ofl + time_tag) * 5 ps), with channel_index bits 30..25, time_tag bits
\* 24..0 and ofl the accumulator before the record; ofl is left unchanged.
C11_NormalRecordEmitsOne ==
  [][(Consumed /\ Streaming /\ IsWord /\ Special = 0) =>
       /\ Produced = <<[ch  |-> ChannelIndex + 1,
                        ts  |-> (overflow_correction + TimeTag) * 5,
                        per |-> 1]>>
       /\ overflow_correction' = overflow_correction]_vars

\* 0xFE000002 then 0x7E000003: channel 64 at (2 * 33554432 + 3) * 5 ps
C11_Witness ==
  /\ Streaming
  /\ raw_records = <<Word(65024, 2), Word(32256, 3)>>
  /\ decoded = <<[ch |-> 64, ts |-> 335544335, per |-> 1]>>
  /\ overflow_correction = 67108864

\* C12: a raw record with special = 1 and channel_index = 0 (sync) makes the
\* decoder emit exactly one event, on channel 0, at (ofl + time_tag) * 5 ps;
\* so 0x80000005, 0x00000007 decode to (0, 25 ps), (1, 35 ps).
C12_SyncEmitsChannelZero ==
  [][(Consumed /\ Streaming /\ IsWord /\ Special = 1 /\ ChannelIndex = 0) =>
       Produced = <<[ch  |-> 0,
                     ts  |-> (overflow_correction + TimeTag) * 5,
                     per |-> 1]>>]_vars

\* the same, for the stream parser alone
C12_StreamParser ==
  [][(Consumed /\ decoder = "StreamParser" /\ IsWord /\ Special = 1
        /\ ChannelIndex = 0) =>
       Produced = <<[ch  |-> 0,
                     ts  |-> (overflow_correction + TimeTag) * 5,
                     per |-> 1]>>]_vars

\* what the queue processor makes of 0x80000005, 0x00000007
C12_QueueProcessorSync ==
  (decoder = "T2RecordQueueProcessor"
     /\ raw_records = <<Word(32768, 5), Word(0, 7)>>) =>
    decoded = <<[ch |-> 256, ts |-> 25, per |-> 1],
                [ch |-> 1, ts |-> 35, per |-> 1]>>

\* an overflow record: special = 1, channel_index = 0x3F
IsOverflow == IsWord /\ Special = 1 /\ ChannelIndex = 63

\* the advance the V2 rule gives the record
WrapV2 == IF TimeTag = 0 THEN 33554432 ELSE TimeTag * 33554432

\* C13 as stated: in the queue processor, the stream parser and
\* Parser.parse_record every overflow record advances ofl by 33_554_432 if
\* its time_tag is 0 and by time_tag * 33_554_432 otherwise.
C13_Original ==
  [][(Consumed /\ decoder \in {"T2RecordQueueProcessor", "StreamParser", "Parser"}
        /\ IsOverflow) =>
       overflow_correction' = overflow_correction + WrapV2]_vars

\* C13: every overflow record advances ofl by 33_554_432 if its time_tag is
\* 0 and by time_tag * 33_554_432 otherwise, in the queue processor, in the
\* stream parser and in a Parser whose ptu_version is not 1; a Parser with
\* ptu_version = 1 advances by 33_552_000 whatever the time_tag.  Words
\* 0xFE000000, 0x00000001 decode to the single event
\* (1, (33_554_432 + 1) * 5 ps) in the queue processor and the stream parser.
C13_OverflowAdvances ==
  [][/\ (Consumed /\ IsOverflow
           /\ decoder \in {"T2RecordQueueProcessor", "StreamParser", "Parser"}) =>
          overflow_correction' = overflow_correction +
            (IF decoder = "Parser" /\ ptu_version = 1 THEN 33552000 ELSE WrapV2)
     /\ (Consumed /\ Streaming
           /\ raw_records' = <<Word(65024, 0), Word(0, 1)>>) =>
          decoded' = <<[ch |-> 1, ts |-> 167772165, per |-> 1]>>]_vars

\* 0xFE000000, 0xFE000002, 0x00000001: three wraparounds, then channel 1
C13_Witness ==
  /\ Streaming
  /\ raw_records = <<Word(65024, 0), Word(65024, 2), Word(0, 1)>>
  /\ overflow_correction = 100663296
  /\ decoded = <<[ch |-> 1, ts |-> 503316485, per |-> 1]>>

\* C14: a raw record with special = 1 and channel_index # 0 (overflow,
\* external marker, any other special record) produces no event on any
\* channel, in every decoder: queue processor, stream parser, Parser, readHT2.
C14_SpecialEmitsNothing ==
  [][(Consumed /\ IsWord /\ Special = 1 /\ ChannelIndex # 0) =>
       Produced = <<>>]_vars

\* the same, without readHT2 of mh_file_parser
C14_ExceptReadHT2 ==
  [][(Consumed /\ decoder # "readHT2" /\ IsWord /\ Special = 1
        /\ ChannelIndex # 0) =>
       Produced = <<>>]_vars

\* readHT2 on the file 0x00000007, 0xFE000000: the overflow record appends
\* the time of the record before it to channel 0
C14_ReadHT2Overflow ==
  (decoder = "readHT2" /\ ptu_version = 2
     /\ raw_records = <<Word(0, 7), Word(65024, 0)>>) =>
    decoded = <<[ch |-> 1, ts |-> 7, per |-> 5], [ch |-> 0, ts |-> 7, per |-> 5]>>

\* the step handles the MeasStart marker of a new acquisition
StartsAcquisition == Consumed /\ Item.type = "MeasStartMarker"

\* C15: the accumulator never decreases within an acquisition and is changed
\* only by decoding an overflow record (normal, sync and marker records
\* leave it unchanged); it goes back to 0 only when a MeasStart is handled.
C15_AccumulatorMonotone ==
  [][/\ overflow_correction' # overflow_correction =>
          Consumed /\ (IsOverflow \/ StartsAcquisition)
     /\ overflow_correction' < overflow_correction =>
          StartsAcquisition /\ overflow_correction' = 0
     /\ (Consumed /\ IsWord /\ ~IsOverflow) =>
          overflow_correction' = overflow_correction]_vars

\* the stream parser has counted a wraparound and then met a MeasStart
C15_Witness ==
  /\ decoder = "StreamParser"
  /\ raw_records = <<Word(65024, 0), Word(32768, 5), MeasStartMarker>>
  /\ decoded = <<[ch |-> 0, ts |-> 167772185, per |-> 1]>>
  /\ overflow_correction = 0

NonDecreasing(evs) ==
  \A i \in 1..Len(evs) : \A j \in i..Len(evs) : evs[i].ts <= evs[j].ts

\* C16: for the raw batches a source delivers within one acquisition, the
\* stub source included, every event the decoder emits has a timestamp
\* greater than or equal to that of the event emitted before it.
C16_TimestampsNonDecreasing ==
  (decoder = "T2RecordQueueProcessor" /\ source = "stub") =>
    NonDecreasing(decoded)

\* within one batch of the stub the timestamps do not decrease
C16_WithinOneBatch ==
  (decoder = "T2RecordQueueProcessor" /\ source = "stub"
     /\ Len(raw_records) <= RecordsPerBatch) =>
    NonDecreasing(decoded)

(***************************************************************************)
(* Device.start_measurement of python/multiharp_toolkit/device.py.         *)
(* start_measurement_async is the same code with "await asyncio.sleep(0)"  *)
(* at the end of every iteration that does not break.                      *)
(*                                                                         *)
(* The driver (multiharp_toolkit._mhtk_rs) is the environment: get_flags,  *)
(* read_fifo and ctc_status return any value or raise, start_measurement   *)
(* may raise, stop_measurement returns.  One action is the code from one   *)
(* driver call to the next.                                                *)
(*   test_enabled   Device.test_enabled, set by the caller                 *)
(*   pc             "idle" before the call, then the driver call that is   *)
(*                  next, "done" after the return, "raised" after an       *)
(*                  exception left the method                              *)
(*   queue          Device.queue, the items put so far                     *)
(*   oflcorrection  Device.oflcorrection                                   *)
(*   calls          the driver calls made so far, with what they returned  *)
(*   device_raised  the exception that left start_measurement, or "none"   *)
(***************************************************************************)
MaxPolls == 3

MaxFileRecords == 2

\* a driver call that returned ret, and one that raised
Call(fn, ret) == [fn |-> fn, ret |-> ret, raises |-> FALSE]

Raises(fn) == [fn |-> fn, ret |-> 0, raises |-> TRUE]

\* flags & 2
FifoFull(flags) == (flags \div 2) % 2 = 1

\* the list data of num_records raw words
Batch(num_records) == [k \in 1..num_records |-> Word(0, k)]

Polls == Cardinality({k \in 1..Len(calls) : calls[k].fn = "get_flags"})

DeviceInit ==
  /\ test_enabled \in BOOLEAN
  /\ pc = "idle"
  /\ queue = <<>>
  /\ oflcorrection = 0
  /\ calls = <<>>
  /\ device_raised = "none"
  /\ CounterIdle /\ DecoderIdle /\ StubIdle /\ PipeIdle /\ HandleIdle /\ SinkIdle /\ HeaderIdle /\ G2Idle /\ HistIdle /\ OnceIdle

\* a driver call raises: nothing catches it, start_measurement is left
Raise(fn) ==
  /\ calls' = Append(calls, Raises(fn))
  /\ pc' = "raised"
  /\ device_raised' = "DriverError"

\* start_measurement up to the top of the loop
StartMeasurement ==
  /\ pc = "idle"
  /\ ~test_enabled
  /\ oflcorrection' = 0
  /\ queue' = Append(queue, <<MeasStartMarker>>)
  /\ \/ /\ calls' = Append(calls, Call("start_measurement", 0))
        /\ pc' = "get_flags"
        /\ UNCHANGED device_raised
     \/ Raise("start_measurement")
  /\ UNCHANGED test_enabled
  /\ UNCHANGED <<counterVars, decoderVars, stubVars, pipeVars, handleVars, sinkVars, headerVars, g2Vars, histVars, onceVars>>

\* the records a put of test_measurement holds, for the records i..n-1 of
\* the file with arr records waiting: a put after every i with i % 64 == 0
RECURSIVE test_batches(_, _, _)
test_batches(i, num_records, arr) ==
  IF i >= num_records
  THEN IF arr > 0 THEN <<Batch(arr)>> ELSE <<>>
  ELSE IF i % 64 = 0
       THEN <<Batch(arr + 1)>> \o test_batches(i + 1, num_records, 0)
       ELSE test_batches(i + 1, num_records, arr + 1)

\* start_measurement with test_enabled: test_measurement replays a file
TestMeasurement(num_records) ==
  /\ pc = "idle"
  /\ test_enabled
  /\ queue' = queue \o <<(<<MeasStartMarker>>)>>
                    \o test_batches(0, num_records, 0)
                    \o <<(<<MeasEndMarker>>)>>
  /\ pc' = "done"
  /\ UNCHANGED <<test_enabled, oflcorrection, calls, device_raised>>
  /\ UNCHANGED <<counterVars, decoderVars, stubVars, pipeVars, handleVars, sinkVars, headerVars, g2Vars, histVars, onceVars>>

\* flags = mh.get_flags(dev_id) and the "if flags & 2" block
GetFlags(flags) ==
  /\ pc = "get_flags"
  /\ Polls < MaxPolls
  /\ IF FifoFull(flags)
     THEN /\ calls' = calls \o <<Call("get_flags", flags),
                                 Call("stop_measurement", 0)>>
          /\ queue' = Append(queue, <<MeasEndMarker>>)
     ELSE /\ calls' = Append(calls, Call("get_flags", flags))
          /\ UNCHANGED queue
  /\ pc' = "read_fifo"
  /\ UNCHANGED <<test_enabled, oflcorrection, device_raised>>
  /\ UNCHANGED <<counterVars, decoderVars, stubVars, pipeVars, handleVars, sinkVars, headerVars, g2Vars, histVars, onceVars>>

GetFlagsRaises ==
  /\ pc = "get_flags"
  /\ Polls < MaxPolls
  /\ Raise("get_flags")
  /\ UNCHANGED <<test_enabled, oflcorrection, queue>>
  /\ UNCHANGED <<counterVars, decoderVars, stubVars, pipeVars, handleVars, sinkVars, headerVars, g2Vars, histVars, onceVars>>

\* variant: the data of a read is not put and the status is checked after
\* every read
ReadFifo_dropsBatch(num_records) ==
  /\ pc = "read_fifo"
  /\ calls' = Append(calls, Call("read_fifo", num_records))
  /\ pc' = "ctc_status"
  /\ UNCHANGED <<queue, test_enabled, oflcorrection, device_raised>>
  /\ UNCHANGED <<counterVars, decoderVars, stubVars, pipeVars, handleVars, sinkVars, headerVars, g2Vars, histVars, onceVars>>

\* num_records, data = mh.read_fifo(dev_id) and the put of a non-empty read
ReadFifo(num_records) ==
  /\ pc = "read_fifo"
  /\ calls' = Append(calls, Call("read_fifo", num_records))
  /\ IF num_records > 0
     THEN /\ queue' = Append(queue, Batch(num_records))
          /\ pc' = "get_flags"
     ELSE /\ UNCHANGED queue
          /\ pc' = "ctc_status"
  /\ UNCHANGED <<test_enabled, oflcorrection, device_raised>>
  /\ UNCHANGED <<counterVars, decoderVars, stubVars, pipeVars, handleVars, sinkVars, headerVars, g2Vars, histVars, onceVars>>

ReadFifoRaises ==
  /\ pc = "read_fifo"
  /\ Raise("read_fifo")
  /\ UNCHANGED <<test_enabled, oflcorrection, queue>>
  /\ UNCHANGED <<counterVars, decoderVars, stubVars, pipeVars, handleVars, sinkVars, headerVars, g2Vars, histVars, onceVars>>

\* status = mh.ctc_status(dev_id); on status > 0 the loop is left and the
\* two statements after it run
CtcStatus(status) ==
  /\ pc = "ctc_status"
  /\ IF status > 0
     THEN /\ calls' = calls \o <<Call("ctc_status", status),
                                 Call("stop_measurement", 0)>>
          /\ queue' = Append(queue, <<MeasEndMarker>>)
          /\ pc' = "done"
     ELSE /\ calls' = Append(calls, Call("ctc_status", status))
          /\ UNCHANGED queue
          /\ pc' = "get_flags"
  /\ UNCHANGED <<test_enabled, oflcorrection, device_raised>>
  /\ UNCHANGED <<counterVars, decoderVars, stubVars, pipeVars, handleVars, sinkVars, headerVars, g2Vars, histVars, onceVars>>

CtcStatusRaises ==
  /\ pc = "ctc_status"
  /\ Raise("ctc_status")
  /\ UNCHANGED <<test_enabled, oflcorrection, queue>>
  /\ UNCHANGED <<counterVars, decoderVars, stubVars, pipeVars, handleVars, sinkVars, headerVars, g2Vars, histVars, onceVars>>

DeviceNext ==
  \/ StartMeasurement
  \/ \E num_records \in 0..MaxFileRecords : TestMeasurement(num_records)
  \/ \E flags \in 0..3 : GetFlags(flags)
  \/ GetFlagsRaises
  \/ \E num_records \in 0..2 : ReadFifo(num_records)
  \/ ReadFifoRaises
  \/ \E status \in 0..1 : CtcStatus(status)
  \/ CtcStatusRaises

SpecDevice == DeviceInit /\ [][DeviceNext]_vars

(***************************************************************************)
(* Vocabulary of the device properties.                                    *)
(***************************************************************************)
IsStart(item) == item = <<MeasStartMarker>>

IsEnd(item) == item = <<MeasEndMarker>>

\* the queue so far can still grow into, or is, Start Batch* End
Envelope(q) ==
  /\ q # <<>> => IsStart(q[1])
  /\ \A k \in 2..Len(q) : ~IsStart(q[k])
  /\ \A k \in 1..Len(q) : IsEnd(q[k]) => k = Len(q)

\* the positions of calls at which get_flags returned the overrun bit
Overruns ==
  {k \in 1..Len(calls) : calls[k].fn = "get_flags" /\ ~calls[k].raises
                           /\ (calls[k].ret \div 2) % 2 = 1}

Started == calls # <<>> /\ calls[1] = Call("start_measurement", 0)

Exited == pc \in {"done", "raised"}

\* C17: whatever the device does during start_measurement (empty polls,
\* non-empty polls, overrun flags, completion), the items put on the raw
\* queue are Start Batch* End: one MeasStart first, one MeasEnd last,
\* nothing after the MeasEnd.
C17_Envelope ==
  /\ Envelope(queue)
  /\ pc = "done" => queue # <<>> /\ IsEnd(queue[Len(queue)])

\* the same, for the runs in which no overrun flag was seen
C17_WithoutOverrun == Overruns = {} => C17_Envelope

\* C18: once get_flags shows the overrun bit the device is stopped and the
\* run fails with FifoOverrun: no poll, no read_fifo and no batch follows;
\* an overrun at the third iteration after two batches leaves MeasStart,
\* Batch, Batch, MeasEnd on the queue and a FifoOverrun result.
C18_OverrunFails ==
  \A k \in Overruns :
    /\ device_raised = "FifoOverrunException"
    /\ pc = "raised"
    /\ \A j \in (k + 1)..Len(calls) : calls[j].fn = "stop_measurement"
    /\ \E j \in (k + 1)..Len(calls) : calls[j].fn = "stop_measurement"
    /\ Cardinality({j \in 1..Len(queue) : ~IsStart(queue[j]) /\ ~IsEnd(queue[j])})
         = Cardinality({j \in 1..(k - 1) : calls[j].fn = "read_fifo"
                                            /\ ~calls[j].raises
                                            /\ calls[j].ret > 0})
    /\ IsEnd(queue[Len(queue)])

\* C19: on every exit of the poll loop after the measurement was started,
\* by completion or by an exception of get_flags, read_fifo or ctc_status,
\* MeasEnd has been put on the raw queue and stop_measurement was called.
C19_ExitPublishesEnd ==
  (Started /\ Exited) =>
    /\ IsEnd(queue[Len(queue)])
    /\ \E k \in 1..Len(calls) : calls[k].fn = "stop_measurement"

\* the same, for the exits by completion
C19_NormalExit ==
  (Started /\ pc = "done") =>
    /\ IsEnd(queue[Len(queue)])
    /\ calls[Len(calls)].fn = "stop_measurement"

\* the batches on the queue, and the data of the non-empty reads so far
IsMarker(item) == IsStart(item) \/ IsEnd(item)

BatchesOn(q) == SelectSeq(q, LAMBDA item : ~IsMarker(item))

NonEmptyRead(c) == c.fn = "read_fifo" /\ ~c.raises /\ c.ret > 0

RECURSIVE DataRead(_)
DataRead(cs) ==
  IF cs = <<>> THEN <<>>
  ELSE IF NonEmptyRead(Head(cs)) THEN <<Batch(Head(cs).ret)>> \o DataRead(Tail(cs))
  ELSE DataRead(Tail(cs))

\* C34: the poll loop is left normally only by a step in which read_fifo
\* has just returned 0 records and ctc_status then returned completion;
\* ctc_status is asked only after a read of 0 records; and the data of
\* every non-empty read is on the raw queue, in reading order, from the
\* step of the read on, so it is there before the MeasEnd of the exit.
C34_ExitOnlyWhenDrained ==
  [][~test_enabled =>
       /\ BatchesOn(queue') = DataRead(calls')
       /\ (Len(calls') > Len(calls)
              /\ calls'[Len(calls) + 1].fn = "ctc_status") =>
            /\ calls # <<>>
            /\ calls[Len(calls)] = Call("read_fifo", 0)
       /\ (pc # "done" /\ pc' = "done") =>
            /\ calls # <<>>
            /\ calls[Len(calls)] = Call("read_fifo", 0)
            /\ calls'[Len(calls) + 1].fn = "ctc_status"
            /\ ~calls'[Len(calls) + 1].raises
            /\ calls'[Len(calls) + 1].ret > 0
            /\ IsEnd(queue'[Len(queue')])
            /\ BatchesOn(queue) = DataRead(calls)]_vars

\* the loop was left after a non-empty read, an empty read without
\* completion and an empty read with completion
C34_Witness ==
  /\ pc = "done" /\ ~test_enabled
  /\ Len(BatchesOn(queue)) = 1
  /\ Cardinality({k \in 1..Len(calls) : calls[k].fn = "ctc_status"}) = 2

(***************************************************************************)
(* StubMultiharpDevice.stream_measurement                                  *)
(* (python/multiharp_toolkit/stub_device.py).                              *)
(*                                                                         *)
(* Time is counted in ticks of 0.01 s, the length of the sleep of the loop.*)
(* The clock is the environment's: it moves at any moment.                 *)
(*   stub_pc           "idle", "while" (at the loop condition), "sleep",   *)
(*                     "done" (returned)                                   *)
(*   output_queue      the items put on output_queue so far                *)
(*   is_shutdown       output_queue.shutdown() has been called             *)
(*   measurement_time  measurement_time_seconds                            *)
(*   now               time.perf_counter()                                 *)
(*   start_time        start_time                                          *)
(*   wake_at           when asyncio.sleep(0.01) may return                 *)
(***************************************************************************)
MaxMeasurementTime == 3

MaxClock == 5

StubInit ==
  /\ stub_pc = "idle"
  /\ output_queue = <<>>
  /\ is_shutdown = FALSE
  /\ measurement_time \in 0..MaxMeasurementTime
  /\ now \in 0..1
  /\ start_time = 0
  /\ wake_at = 0
  /\ CounterIdle /\ DecoderIdle /\ DeviceIdle /\ PipeIdle /\ HandleIdle /\ SinkIdle /\ HeaderIdle /\ G2Idle /\ HistIdle /\ OnceIdle

\* time passes
Tick ==
  /\ now < MaxClock
  /\ now' = now + 1
  /\ UNCHANGED <<stub_pc, output_queue, is_shutdown, measurement_time,
                 start_time, wake_at>>
  /\ UNCHANGED <<counterVars, decoderVars, deviceVars, pipeVars, handleVars, sinkVars, headerVars, g2Vars, histVars, onceVars>>

\* stream_measurement is called: start_time = time.perf_counter()
StreamMeasurement ==
  /\ stub_pc = "idle"
  /\ start_time' = now
  /\ stub_pc' = "while"
  /\ UNCHANGED <<output_queue, is_shutdown, measurement_time, now, wake_at>>
  /\ UNCHANGED <<counterVars, decoderVars, deviceVars, pipeVars, handleVars, sinkVars, headerVars, g2Vars, histVars, onceVars>>

\* the loop condition holds: put one list of raw records, start the sleep
StubPut ==
  /\ stub_pc = "while"
  /\ (now - start_time) < measurement_time
  /\ output_queue' = Append(output_queue, generate_raw_records)
  /\ wake_at' = now + 1
  /\ stub_pc' = "sleep"
  /\ UNCHANGED <<is_shutdown, measurement_time, now, start_time>>
  /\ UNCHANGED <<counterVars, decoderVars, deviceVars, pipeVars, handleVars, sinkVars, headerVars, g2Vars, histVars, onceVars>>

\* asyncio.sleep(0.01) returns
StubWake ==
  /\ stub_pc = "sleep"
  /\ now >= wake_at
  /\ stub_pc' = "while"
  /\ UNCHANGED <<output_queue, is_shutdown, measurement_time, now, start_time,
                 wake_at>>
  /\ UNCHANGED <<counterVars, decoderVars, deviceVars, pipeVars, handleVars, sinkVars, headerVars, g2Vars, histVars, onceVars>>

\* variant: the loop is followed by a MeasEnd marker
StubShutdown_withEnd ==
  /\ stub_pc = "while"
  /\ ~((now - start_time) < measurement_time)
  /\ output_queue' = Append(output_queue, <<MeasEndMarker>>)
  /\ is_shutdown' = TRUE
  /\ stub_pc' = "done"
  /\ UNCHANGED <<measurement_time, now, start_time, wake_at>>
  /\ UNCHANGED <<counterVars, decoderVars, deviceVars, pipeVars, handleVars, sinkVars, headerVars, g2Vars, histVars, onceVars>>

\* the loop condition fails: output_queue.shutdown() and return
StubShutdown ==
  /\ stub_pc = "while"
  /\ ~((now - start_time) < measurement_time)
  /\ is_shutdown' = TRUE
  /\ stub_pc' = "done"
  /\ UNCHANGED <<output_queue, measurement_time, now, start_time, wake_at>>
  /\ UNCHANGED <<counterVars, decoderVars, deviceVars, pipeVars, handleVars, sinkVars, headerVars, g2Vars, histVars, onceVars>>

StubNext ==
  \/ Tick
  \/ StreamMeasurement
  \/ StubPut
  \/ StubWake
  \/ StubShutdown

SpecStub == StubInit /\ [][StubNext]_vars

maxsize == 0

\* asyncio.Queue.full
full(q) == IF maxsize <= 0 THEN FALSE ELSE Len(q) >= maxsize

PipeInit ==
  /\ ready = <<"stub", "processor", "consumer">>
  /\ running = "none"
  /\ stub_pc = "idle"
  /\ output_queue = <<>>
  /\ is_shutdown = FALSE
  /\ measurement_time \in 0..MaxMeasurementTime
  /\ now = 0
  /\ start_time = 0
  /\ wake_at = 0
  /\ proc_pc = "start"
  /\ batch_in_hand = <<>>
  /\ closed = FALSE
  /\ processed_queue = <<>>
  /\ processed_shutdown = FALSE
  /\ cons_pc = "get"
  /\ sent = <<>>
  /\ received = <<>>
  /\ pipe_raised = "none"
  /\ CounterIdle /\ DecoderIdle /\ DeviceIdle /\ HandleIdle /\ SinkIdle /\ HeaderIdle /\ G2Idle /\ HistIdle /\ OnceIdle

\* time passes; the exploration lets at most MaxClock - MaxMeasurementTime
\* units pass before the measurement starts
PipeTick ==
  /\ stub_pc = "idle" => now < MaxClock - MaxMeasurementTime
  /\ Tick

\* the event loop runs the next ready task
RunOnce ==
  /\ running = "none"
  /\ ready # <<>>
  /\ running' = Head(ready)
  /\ ready' = Tail(ready)
  /\ UNCHANGED <<proc_pc, batch_in_hand, closed, processed_queue,
                 processed_shutdown, cons_pc, sent, received, pipe_raised>>
  /\ UNCHANGED <<counterVars, decoderVars, deviceVars, stubVars, handleVars, sinkVars, headerVars, g2Vars, histVars, onceVars>>

\* Queue._wakeup_next / the loop of Queue.shutdown over _getters: the task
\* suspended in get of the raw queue is scheduled
WakeProcessor ==
  IF proc_pc = "waiting"
  THEN proc_pc' = "get" /\ ready' = Append(ready, "processor")
  ELSE UNCHANGED <<proc_pc, ready>>

\* the same for the task suspended in get of the processed queue
WakeConsumer ==
  IF cons_pc = "waiting"
  THEN cons_pc' = "get" /\ ready' = Append(ready, "consumer")
  ELSE UNCHANGED <<cons_pc, ready>>

\* stream_measurement starts: start_time = time.perf_counter()
PipeStreamMeasurement ==
  /\ running = "stub"
  /\ stub_pc = "idle"
  /\ start_time' = now
  /\ stub_pc' = "while"
  /\ UNCHANGED <<output_queue, is_shutdown, measurement_time, now, wake_at>>
  /\ UNCHANGED pipeVars
  /\ UNCHANGED <<counterVars, decoderVars, deviceVars, handleVars, sinkVars, headerVars, g2Vars, histVars, onceVars>>

\* the loop condition holds: put one batch, then suspend in asyncio.sleep
PipeStubPut ==
  /\ running = "stub"
  /\ stub_pc = "while"
  /\ (now - start_time) < measurement_time
  /\ ~full(output_queue)
  /\ output_queue' = Append(output_queue, generate_raw_records)
  /\ sent' = Append(sent, generate_raw_records)
  /\ WakeProcessor
  /\ wake_at' = now + 1
  /\ stub_pc' = "sleep"
  /\ running' = "none"
  /\ UNCHANGED <<is_shutdown, measurement_time, now, start_time>>
  /\ UNCHANGED <<batch_in_hand, closed, processed_queue, processed_shutdown,
                 cons_pc, received, pipe_raised>>
  /\ UNCHANGED <<counterVars, decoderVars, deviceVars, handleVars, sinkVars, headerVars, g2Vars, histVars, onceVars>>

\* the timer of asyncio.sleep(0.01) is due: the loop schedules the stub
PipeStubWake ==
  /\ running = "none"
  /\ stub_pc = "sleep"
  /\ now >= wake_at
  /\ stub_pc' = "while"
  /\ ready' = Append(ready, "stub")
  /\ UNCHANGED <<output_queue, is_shutdown, measurement_time, now, start_time,
                 wake_at>>
  /\ UNCHANGED <<running, proc_pc, batch_in_hand, closed, processed_queue,
                 processed_shutdown, cons_pc, sent, received, pipe_raised>>
  /\ UNCHANGED <<counterVars, decoderVars, deviceVars, handleVars, sinkVars, headerVars, g2Vars, histVars, onceVars>>

\* variant: one more batch is put right before the shutdown
PipeStubShutdown_lastBatch ==
  /\ running = "stub"
  /\ stub_pc = "while"
  /\ ~((now - start_time) < measurement_time)
  /\ output_queue' = Append(output_queue, generate_raw_records)
  /\ sent' = Append(sent, generate_raw_records)
  /\ is_shutdown' = TRUE
  /\ WakeProcessor
  /\ stub_pc' = "done"
  /\ running' = "none"
  /\ UNCHANGED <<measurement_time, now, start_time, wake_at>>
  /\ UNCHANGED <<batch_in_hand, closed, processed_queue, processed_shutdown,
                 cons_pc, received, pipe_raised>>
  /\ UNCHANGED <<counterVars, decoderVars, deviceVars, handleVars, sinkVars, headerVars, g2Vars, histVars, onceVars>>

\* the loop condition fails: output_queue.shutdown(), the task returns
PipeStubShutdown ==
  /\ running = "stub"
  /\ stub_pc = "while"
  /\ ~((now - start_time) < measurement_time)
  /\ is_shutdown' = TRUE
  /\ WakeProcessor
  /\ stub_pc' = "done"
  /\ running' = "none"
  /\ UNCHANGED <<output_queue, measurement_time, now, start_time, wake_at>>
  /\ UNCHANGED <<batch_in_hand, closed, processed_queue, processed_shutdown,
                 cons_pc, sent, received, pipe_raised>>
  /\ UNCHANGED <<counterVars, decoderVars, deviceVars, handleVars, sinkVars, headerVars, g2Vars, histVars, onceVars>>

\* variant: open does not look at closed
ProcOpen_reopens ==
  /\ running = "processor"
  /\ proc_pc = "start"
  /\ proc_pc' = "get"
  /\ UNCHANGED <<pipe_raised, running>>
  /\ UNCHANGED <<ready, batch_in_hand, closed, processed_queue,
                 processed_shutdown, cons_pc, sent, received>>
  /\ UNCHANGED <<counterVars, decoderVars, deviceVars, stubVars, handleVars, sinkVars, headerVars, g2Vars, histVars, onceVars>>

\* T2RecordQueueProcessor.open, its first lines: a closed processor raises
ProcOpen ==
  /\ running = "processor"
  /\ proc_pc = "start"
  /\ IF closed
     THEN /\ pipe_raised' = "InvalidStateException"
          /\ proc_pc' = "done"
          /\ running' = "none"
     ELSE /\ proc_pc' = "get"
          /\ UNCHANGED <<pipe_raised, running>>
  /\ UNCHANGED <<ready, batch_in_hand, closed, processed_queue,
                 processed_shutdown, cons_pc, sent, received>>
  /\ UNCHANGED <<counterVars, decoderVars, deviceVars, stubVars, handleVars, sinkVars, headerVars, g2Vars, histVars, onceVars>>

\* raw_records = await self.input_queue.get(), the queue holds an item
ProcGet ==
  /\ running = "processor"
  /\ proc_pc = "get"
  /\ output_queue # <<>>
  /\ batch_in_hand' = Head(output_queue)
  /\ output_queue' = Tail(output_queue)
  /\ proc_pc' = "process"
  /\ UNCHANGED <<stub_pc, is_shutdown, measurement_time, now, start_time, wake_at>>
  /\ UNCHANGED <<ready, running, closed, processed_queue, processed_shutdown,
                 cons_pc, sent, received, pipe_raised>>
  /\ UNCHANGED <<counterVars, decoderVars, deviceVars, handleVars, sinkVars, headerVars, g2Vars, histVars, onceVars>>

\* the queue is empty and open: the task suspends in get
ProcSuspend ==
  /\ running = "processor"
  /\ proc_pc = "get"
  /\ output_queue = <<>>
  /\ ~is_shutdown
  /\ proc_pc' = "waiting"
  /\ running' = "none"
  /\ UNCHANGED <<ready, batch_in_hand, closed, processed_queue,
                 processed_shutdown, cons_pc, sent, received, pipe_raised>>
  /\ UNCHANGED <<counterVars, decoderVars, deviceVars, stubVars, handleVars, sinkVars, headerVars, g2Vars, histVars, onceVars>>

\* variant: open ends at QueueShutDown without shutting the output queue down
ProcClose_keepsOpen ==
  /\ running = "processor"
  /\ proc_pc = "get"
  /\ output_queue = <<>>
  /\ is_shutdown
  /\ closed' = TRUE
  /\ proc_pc' = "done"
  /\ running' = "none"
  /\ UNCHANGED <<ready, batch_in_hand, processed_queue, processed_shutdown,
                 cons_pc, sent, received, pipe_raised>>
  /\ UNCHANGED <<counterVars, decoderVars, deviceVars, stubVars, handleVars, sinkVars, headerVars, g2Vars, histVars, onceVars>>

\* variant: a closed processor shuts its output queue down again
close_again ==
  /\ processed_shutdown' = TRUE
  /\ output_shutdowns' = output_shutdowns + 1
  /\ WakeConsumer
  /\ closed' = TRUE

\* close: a processor that is not closed shuts the output queue down and
\* sets closed; a closed one raises InvalidStateException instead (the
\* caller of this operator records the exception)
close ==
  IF closed
    THEN UNCHANGED <<processed_shutdown, output_shutdowns, closed, cons_pc,
                     ready>>
    ELSE /\ processed_shutdown' = TRUE
         /\ output_shutdowns' = output_shutdowns + 1
         /\ WakeConsumer
         /\ closed' = TRUE

\* the queue is empty and shut down: get raises QueueShutDown, open calls
\* close and leaves its loop; close shuts the output queue down and sets
\* closed, or raises if the processor was closed already
ProcClose ==
  /\ running = "processor"
  /\ proc_pc = "get"
  /\ output_queue = <<>>
  /\ is_shutdown
  /\ close
  /\ pipe_raised' = IF closed THEN "InvalidStateException" ELSE pipe_raised
  /\ proc_pc' = "done"
  /\ running' = "none"
  /\ UNCHANGED <<batch_in_hand, processed_queue, sent, received>>
  /\ UNCHANGED <<via, user_calls>>
  /\ UNCHANGED <<counterVars, decoderVars, deviceVars, stubVars, handleVars, sinkVars, headerVars, g2Vars, histVars>>

\* variant: the event of the record is not put
ProcRecord_dropped ==
  /\ running = "processor"
  /\ proc_pc = "process"
  /\ batch_in_hand # <<>>
  /\ batch_in_hand' = Tail(batch_in_hand)
  /\ UNCHANGED <<ready, running, proc_pc, closed, processed_queue,
                 processed_shutdown, cons_pc, sent, received, pipe_raised>>
  /\ UNCHANGED <<counterVars, decoderVars, deviceVars, stubVars, handleVars, sinkVars, headerVars, g2Vars, histVars, onceVars>>

\* __process_raw_records, one record: its events are put on the output
\* queue; a put on a queue that is shut down raises QueueShutDown, which
\* open handles like the one of get
ProcRecord ==
  /\ running = "processor"
  /\ proc_pc = "process"
  /\ batch_in_hand # <<>>
  /\ LET d == process_raw_record(DecoderState(overflow_correction, 0),
                                 Head(batch_in_hand))
     IN  /\ overflow_correction' = d.overflow_correction
         /\ IF d.put # <<>> /\ processed_shutdown
            THEN \* put raises QueueShutDown: open calls close and leaves
                 /\ close
                 /\ pipe_raised' = IF closed THEN "InvalidStateException"
                                             ELSE pipe_raised
                 /\ proc_pc' = "done"
                 /\ running' = "none"
                 /\ UNCHANGED processed_queue
            ELSE /\ processed_queue' = processed_queue \o d.put
                 /\ IF d.put # <<>> THEN WakeConsumer
                    ELSE UNCHANGED <<cons_pc, ready>>
                 /\ UNCHANGED <<pipe_raised, proc_pc, running, closed,
                                processed_shutdown, output_shutdowns>>
  /\ batch_in_hand' = Tail(batch_in_hand)
  /\ UNCHANGED <<sent, received, via, user_calls>>
  /\ UNCHANGED <<decoder, source, ptu_version, held_truetime, raw_records,
                 decoded, ch_arr, queue_send, decoder_raised>>
  /\ UNCHANGED <<counterVars, deviceVars, stubVars, handleVars, sinkVars, headerVars, g2Vars, histVars>>

\* the batch is decoded: self.input_queue.task_done(), back to get
ProcTaskDone ==
  /\ running = "processor"
  /\ proc_pc = "process"
  /\ batch_in_hand = <<>>
  /\ proc_pc' = "get"
  /\ UNCHANGED <<ready, running, batch_in_hand, closed, processed_queue,
                 processed_shutdown, cons_pc, sent, received, pipe_raised>>
  /\ UNCHANGED <<counterVars, decoderVars, deviceVars, stubVars, handleVars, sinkVars, headerVars, g2Vars, histVars, onceVars>>

\* variant: the consumer takes the newest item of the queue
ConsGet_newest ==
  /\ running = "consumer"
  /\ cons_pc = "get"
  /\ processed_queue # <<>>
  /\ received' = Append(received, processed_queue[Len(processed_queue)])
  /\ processed_queue' = SubSeq(processed_queue, 1, Len(processed_queue) - 1)
  /\ UNCHANGED <<ready, running, proc_pc, batch_in_hand, closed,
                 processed_shutdown, cons_pc, sent, pipe_raised>>
  /\ UNCHANGED <<counterVars, decoderVars, deviceVars, stubVars, handleVars, sinkVars, headerVars, g2Vars, histVars, onceVars>>

\* read_queued_messages: await processed_queue.get() returns an item,
\* record_count += 1, task_done
ConsGet ==
  /\ running = "consumer"
  /\ cons_pc = "get"
  /\ processed_queue # <<>>
  /\ received' = Append(received, Head(processed_queue))
  /\ processed_queue' = Tail(processed_queue)
  /\ UNCHANGED <<ready, running, proc_pc, batch_in_hand, closed,
                 processed_shutdown, cons_pc, sent, pipe_raised>>
  /\ UNCHANGED <<counterVars, decoderVars, deviceVars, stubVars, handleVars, sinkVars, headerVars, g2Vars, histVars, onceVars>>

\* the processed queue is empty and open: the consumer suspends in get
ConsSuspend ==
  /\ running = "consumer"
  /\ cons_pc = "get"
  /\ processed_queue = <<>>
  /\ ~processed_shutdown
  /\ cons_pc' = "waiting"
  /\ running' = "none"
  /\ UNCHANGED <<ready, proc_pc, batch_in_hand, closed, processed_queue,
                 processed_shutdown, sent, received, pipe_raised>>
  /\ UNCHANGED <<counterVars, decoderVars, deviceVars, stubVars, handleVars, sinkVars, headerVars, g2Vars, histVars, onceVars>>

\* the processed queue is empty and shut down: get raises QueueShutDown,
\* the consumer leaves its loop and returns
ConsShutDown ==
  /\ running = "consumer"
  /\ cons_pc = "get"
  /\ processed_queue = <<>>
  /\ processed_shutdown
  /\ cons_pc' = "done"
  /\ running' = "none"
  /\ UNCHANGED <<ready, proc_pc, batch_in_hand, closed, processed_queue,
                 processed_shutdown, sent, received, pipe_raised>>
  /\ UNCHANGED <<counterVars, decoderVars, deviceVars, stubVars, handleVars, sinkVars, headerVars, g2Vars, histVars, onceVars>>

PipeNext ==
  \/ PipeTick
  \/ RunOnce
  \/ PipeStreamMeasurement
  \/ PipeStubPut
  \/ PipeStubWake
  \/ PipeStubShutdown
  \/ ProcOpen
  \/ ProcGet
  \/ ProcSuspend
  \/ ProcClose
  \/ ProcRecord
  \/ ProcTaskDone
  \/ ConsGet
  \/ ConsSuspend
  \/ ConsShutDown

SpecPipeline == PipeInit /\ [][PipeNext]_vars

(***************************************************************************)
(* Properties of the pipeline.                                             *)
(***************************************************************************)
RECURSIVE Flatten(_)
Flatten(batches) ==
  IF batches = <<>> THEN <<>> ELSE Head(batches) \o Flatten(Tail(batches))

\* the events a fresh processor puts for a sequence of raw words
RECURSIVE DecodeAll(_, _)
DecodeAll(ofl, words) ==
  IF words = <<>> THEN <<>>
  ELSE LET d == process_raw_record(DecoderState(ofl, 0), Head(words))
       IN  d.put \o DecodeAll(d.overflow_correction, Tail(words))

\* the events of everything the source has put so far
Expected == DecodeAll(0, Flatten(sent))

\* the processor / the consumer comes out of a get in this step
ProcessorReceives ==
  running = "processor" /\ proc_pc = "get" /\ proc_pc' # proc_pc

ConsumerReceives ==
  running = "consumer" /\ cons_pc = "get"
  /\ (cons_pc' # cons_pc \/ received' # received)

C22_DrainedBeforeShutdown ==
  processed_shutdown =>
    /\ is_shutdown
    /\ output_queue = <<>>
    /\ batch_in_hand = <<>>
    /\ received \o processed_queue = Expected

\* the processed queue is shut down after two batches went through
C22_Witness ==
  /\ processed_shutdown
  /\ Len(sent) = 2
  /\ Len(received \o processed_queue) = 2 * RecordsPerBatch

\* C23: what the consumer has received is at every moment the beginning of
\* the events of the raw words in the order the source produced them, and
\* the events still under way follow in that order too.
C23_NoReordering ==
  /\ Len(received) <= Len(Expected)
  /\ received = SubSeq(Expected, 1, Len(received))
  /\ LET put == received \o processed_queue
     IN  /\ Len(put) <= Len(Expected)
         /\ put = SubSeq(Expected, 1, Len(put))

\* the consumer has received the events of two batches while a third batch
\* is on its way
C23_Witness ==
  /\ Len(received) = 2 * RecordsPerBatch
  /\ Len(sent) = 3
  /\ received[1] # received[2]

\* The steps of the event loop and of its tasks.
PipeLoop ==
  \/ RunOnce
  \/ PipeStreamMeasurement
  \/ PipeStubPut
  \/ PipeStubWake
  \/ PipeStubShutdown
  \/ ProcOpen
  \/ ProcGet
  \/ ProcSuspend
  \/ ProcClose
  \/ ProcRecord
  \/ ProcTaskDone
  \/ ConsGet
  \/ ConsSuspend
  \/ ConsShutDown

\* The event loop keeps running what is ready (asyncio.run returns only
\* when the TaskGroup has ended) and time keeps passing.
SpecPipelineFair ==
  /\ PipeInit
  /\ [][PipeNext]_vars
  /\ WF_vars(PipeLoop)
  /\ WF_vars(PipeTick)

AllReturned == stub_pc = "done" /\ proc_pc = "done" /\ cons_pc = "done"

\* C24: under fair scheduling no task of the pipeline ever raises, and from
\* some moment on the raw queue is shut down, the processor is closed and
\* has shut the processed queue down, and all three tasks have returned.
C24_Terminates ==
  /\ [](pipe_raised = "none")
  /\ <>[](AllReturned /\ is_shutdown /\ closed /\ processed_shutdown)

\* the pipeline has ended after one batch went through, nothing left to run
C24_Witness ==
  /\ AllReturned
  /\ pipe_raised = "none"
  /\ ready = <<>> /\ running = "none"
  /\ Len(sent) = 1
  /\ Len(received) = RecordsPerBatch

\* C25: both queues have a fixed finite capacity (a maxsize above 0), the
\* number of items each holds never exceeds it, and a put happens only on
\* a queue that is not full.
C25_BoundedQueues ==
  /\ maxsize > 0
  /\ Len(output_queue) <= maxsize
  /\ Len(processed_queue) <= maxsize

\* what the code has instead: no queue of the pipeline is ever full, so no
\* put suspends, whatever the queues hold
C25_NeverFull ==
  /\ ~full(output_queue)
  /\ ~full(processed_queue)

(***************************************************************************)
(* The handle of a Device: open, configure, close.                         *)
(*   is_open      Device.is_open                                           *)
(*   num_inputs   what mh.get_number_of_input_channels reports             *)
(*   inputs       len(self.config["inputs"])                               *)
(*   ops          the methods called on the handle so far                  *)
(*   calls        the driver calls made so far; ret of a set_input_* call  *)
(*                is its channel                                           *)
(*   device_raised exception that came out of a method, or "none"          *)
(***************************************************************************)
MaxInputs == 2

MaxOps == 3

HandleInit ==
  /\ is_open = FALSE
  /\ num_inputs \in 0..MaxInputs
  /\ inputs \in 0..MaxInputs
  /\ ops = <<>>
  /\ DeviceIdle
  /\ CounterIdle /\ DecoderIdle /\ StubIdle /\ PipeIdle /\ SinkIdle /\ HeaderIdle /\ G2Idle /\ HistIdle /\ OnceIdle

\* the body of the loop of configure for the channels from ch on;
\* self.config["inputs"][ch] raises IndexError past the configured entries
RECURSIVE input_settings(_)
input_settings(ch) ==
  IF ch >= num_inputs THEN [calls |-> <<>>, raised |-> "none"]
  ELSE IF ch >= inputs THEN [calls |-> <<>>, raised |-> "IndexError"]
  ELSE LET rest == input_settings(ch + 1)
       IN  [calls  |-> << Call("set_input_edge_trigger", ch),
                          Call("set_input_channel_offset", ch),
                          Call("set_input_channel_enable", ch) >> \o rest.calls,
            raised |-> rest.raised]

\* Device.configure: a channel count that differs from the configuration
\* is printed as a warning, then the settings are applied
configure ==
  LET loop == input_settings(0)
  IN  [calls  |-> << Call("get_number_of_input_channels", num_inputs),
                     Call("set_sync_divider", 0),
                     Call("set_sync_edge_trigger", 0),
                     Call("set_sync_channel_offset", 0),
                     Call("set_sync_channel_enable", 0) >> \o loop.calls,
       raised |-> loop.raised]

\* Device.open / __enter__: __open
Open ==
  /\ device_raised = "none"
  /\ Len(ops) < MaxOps
  /\ ops' = Append(ops, "open")
  /\ IF is_open
     THEN UNCHANGED <<is_open, calls, device_raised>>
     ELSE /\ is_open' = TRUE
          /\ calls' = calls \o << Call("open_device", 0), Call("initialize", 0) >>
                            \o configure.calls
          /\ device_raised' = configure.raised
  /\ UNCHANGED <<num_inputs, inputs>>
  /\ UNCHANGED <<test_enabled, pc, queue, oflcorrection>>
  /\ UNCHANGED <<counterVars, decoderVars, stubVars, pipeVars, sinkVars, headerVars, g2Vars, histVars, onceVars>>

\* Device.configure called on the handle
Configure ==
  /\ device_raised = "none"
  /\ Len(ops) < MaxOps
  /\ ops' = Append(ops, "configure")
  /\ calls' = calls \o configure.calls
  /\ device_raised' = configure.raised
  /\ UNCHANGED <<is_open, num_inputs, inputs>>
  /\ UNCHANGED <<test_enabled, pc, queue, oflcorrection>>
  /\ UNCHANGED <<counterVars, decoderVars, stubVars, pipeVars, sinkVars, headerVars, g2Vars, histVars, onceVars>>

\* Device.close / __exit__
Close ==
  /\ device_raised = "none"
  /\ Len(ops) < MaxOps
  /\ ops' = Append(ops, "close")
  /\ calls' = Append(calls, Call("close_device", 0))
  /\ is_open' = FALSE
  /\ UNCHANGED <<num_inputs, inputs, device_raised>>
  /\ UNCHANGED <<test_enabled, pc, queue, oflcorrection>>
  /\ UNCHANGED <<counterVars, decoderVars, stubVars, pipeVars, sinkVars, headerVars, g2Vars, histVars, onceVars>>

HandleNext ==
  \/ Open
  \/ Configure
  \/ Close

SpecHandle == HandleInit /\ [][HandleNext]_vars

\* the method called in this step, the driver calls it made
Called(op) == ops' = Append(ops, op)

NewCalls == SubSeq(calls', Len(calls) + 1, Len(calls'))

Made(cs, fn) == \E k \in 1..Len(cs) : cs[k].fn = fn

Settings ==
  {"set_sync_divider", "set_sync_edge_trigger", "set_sync_channel_offset",
   "set_sync_channel_enable", "set_input_edge_trigger",
   "set_input_channel_offset", "set_input_channel_enable"}

\* C26: an open() after a close() on the same handle fails with
\* InvalidState and does not call the driver's open_device.
C26_NoReopen ==
  [][(Called("open") /\ \E k \in 1..Len(ops) : ops[k] = "close") =>
       /\ device_raised' = "InvalidState"
       /\ ~Made(NewCalls, "open_device")]_vars

\* what the code does: an open() after a close() opens the device again
C26_Reopens ==
  [][(Called("open") /\ ~is_open) =>
       /\ Made(NewCalls, "open_device")
       /\ is_open'
       /\ device_raised' \in {"none", "IndexError"}]_vars

\* C27: when the device reports a channel count that differs from the
\* number of configured inputs, configure fails with InvalidState and
\* makes no trigger, offset or enable call.
C27_MismatchRejected ==
  [][(Made(NewCalls, "get_number_of_input_channels") /\ num_inputs # inputs) =>
       /\ device_raised' = "InvalidState"
       /\ \A fn \in Settings : ~Made(NewCalls, fn)]_vars

\* what the code does on a mismatch: the sync settings are always applied;
\* more reported channels than entries ends in IndexError after the
\* settings of the configured channels, fewer ends without error
C27_MismatchApplied ==
  [][(Made(NewCalls, "get_number_of_input_channels") /\ num_inputs # inputs) =>
       /\ Made(NewCalls, "set_sync_channel_enable")
       /\ device_raised' = IF num_inputs > inputs THEN "IndexError" ELSE "none"
       /\ (inputs > 0 /\ num_inputs > 0) => Made(NewCalls, "set_input_channel_enable")]_vars

(***************************************************************************)
(* write_parquet.  The producer of its input queue puts records and shuts  *)
(* the queue down; write_parquet suspends only in input_queue.get().       *)
(*   input_queue    the items of the input queue                           *)
(*   sink_shutdown  the input queue has been shut down                     *)
(*   puts           number of records put so far; the k-th is Rec(k)       *)
(*   sink_pc        "open": about to open a file, "get": in the loop       *)
(*                  around get, "done": returned or raised                 *)
(*   batch_dict     the buffered rows                                      *)
(*   chunk_count    chunks written to the current file                     *)
(*   files          the files created, each the chunks written to it       *)
(*   record         the local variable record: <<>> while unbound          *)
(*   sink_raised    exception that came out of write_parquet, or "none"    *)
(***************************************************************************)
MaxRows == 4

MaxChunkRows == 2

MaxFileRows == 3

\* the k-th record put: (channel, time_tag)
Rec(k) == T2Record((k % 2) + 1, k * resolution)

SinkInit ==
  /\ input_queue = <<>>
  /\ sink_shutdown = FALSE
  /\ sink_pc = "open"
  /\ sink_raised = "none"
  /\ batch_dict = <<>>
  /\ chunk_count = 0
  /\ files = <<>>
  /\ record = <<>>
  /\ chunk_rows \in 1..MaxChunkRows
  /\ file_rows \in 1..MaxFileRows
  /\ puts = 0
  /\ CounterIdle /\ DecoderIdle /\ DeviceIdle /\ StubIdle /\ PipeIdle /\ HandleIdle /\ HeaderIdle /\ G2Idle /\ HistIdle /\ OnceIdle

\* the producer puts a record
SinkPut ==
  /\ ~sink_shutdown
  /\ puts < MaxRows
  /\ puts' = puts + 1
  /\ input_queue' = Append(input_queue, Rec(puts + 1))
  /\ UNCHANGED <<sink_shutdown, sink_pc, sink_raised, batch_dict, chunk_count,
                 files, record, chunk_rows, file_rows>>
  /\ UNCHANGED <<counterVars, decoderVars, deviceVars, stubVars, pipeVars, handleVars, headerVars, g2Vars, histVars, onceVars>>

\* the producer shuts the queue down
SinkQueueShutdown ==
  /\ ~sink_shutdown
  /\ sink_shutdown' = TRUE
  /\ UNCHANGED <<input_queue, sink_pc, sink_raised, batch_dict, chunk_count,
                 files, record, chunk_rows, file_rows, puts>>
  /\ UNCHANGED <<counterVars, decoderVars, deviceVars, stubVars, pipeVars, handleVars, headerVars, g2Vars, histVars, onceVars>>

\* unfinished tasks of the input queue: every record got is marked done in
\* the step that gets it
unfinished_tasks == Len(input_queue)

\* writer.write_batch: one more chunk in the newest file
write_batch(fs, rows) == [fs EXCEPT ![Len(fs)] = Append(@, rows)]

\* variant: the file is left one chunk later
file_is_full_oneMore(count) == count * chunk_rows > file_rows

\* chunk_count >= max_chunk_count, with max_chunk_count = file_rows / chunk_rows
file_is_full(count) == count * chunk_rows >= file_rows

\* one turn of the outer loop: a new file with its writer, an empty buffer
SinkOpenFile ==
  /\ sink_pc = "open"
  /\ files' = Append(files, <<>>)
  /\ batch_dict' = <<>>
  /\ chunk_count' = 0
  /\ sink_pc' = "get"
  /\ UNCHANGED <<input_queue, sink_shutdown, sink_raised, record, chunk_rows,
                 file_rows, puts>>
  /\ UNCHANGED <<counterVars, decoderVars, deviceVars, stubVars, pipeVars, handleVars, headerVars, g2Vars, histVars, onceVars>>

\* variant: a written chunk stays in the buffer
SinkGet_keepsBuffer ==
  /\ sink_pc = "get"
  /\ input_queue # <<>>
  /\ record' = <<Head(input_queue)>>
  /\ input_queue' = Tail(input_queue)
  /\ LET rows == Append(batch_dict, Head(input_queue))
     IN  IF Len(rows) >= chunk_rows
         THEN /\ files' = write_batch(files, rows)
              /\ chunk_count' = chunk_count + 1
              /\ batch_dict' = rows
              /\ sink_pc' = IF file_is_full(chunk_count + 1) THEN "open" ELSE "get"
         ELSE /\ batch_dict' = rows
              /\ UNCHANGED <<files, chunk_count, sink_pc>>
  /\ UNCHANGED <<sink_shutdown, sink_raised, chunk_rows, file_rows, puts>>
  /\ UNCHANGED <<counterVars, decoderVars, deviceVars, stubVars, pipeVars, handleVars, headerVars, g2Vars, histVars, onceVars>>

\* get returns a record: it is buffered and marked done; a full buffer is
\* written as a chunk, and the file is left when it has its chunks
SinkGet ==
  /\ sink_pc = "get"
  /\ input_queue # <<>>
  /\ record' = <<Head(input_queue)>>
  /\ input_queue' = Tail(input_queue)
  /\ LET rows == Append(batch_dict, Head(input_queue))
     IN  IF Len(rows) = chunk_rows
         THEN /\ files' = write_batch(files, rows)
              /\ chunk_count' = chunk_count + 1
              /\ batch_dict' = <<>>
              /\ sink_pc' = IF file_is_full(chunk_count + 1) THEN "open" ELSE "get"
         ELSE /\ batch_dict' = rows
              /\ UNCHANGED <<files, chunk_count, sink_pc>>
  /\ UNCHANGED <<sink_shutdown, sink_raised, chunk_rows, file_rows, puts>>
  /\ UNCHANGED <<counterVars, decoderVars, deviceVars, stubVars, pipeVars, handleVars, headerVars, g2Vars, histVars, onceVars>>

\* variant: the buffered rows are dropped at the shutdown
SinkShutDown_noFlush ==
  /\ sink_pc = "get"
  /\ input_queue = <<>>
  /\ sink_shutdown
  /\ sink_pc' = "done"
  /\ UNCHANGED <<input_queue, sink_shutdown, sink_raised, batch_dict,
                 chunk_count, files, record, chunk_rows, file_rows, puts>>
  /\ UNCHANGED <<counterVars, decoderVars, deviceVars, stubVars, pipeVars, handleVars, headerVars, g2Vars, histVars, onceVars>>

\* get raises QueueShutDown.  With rows in the buffer they are written and
\* write_parquet returns.  With an empty buffer the handler ends without a
\* break and the loop body goes on to record[0]: record is unbound if no
\* record was ever got (UnboundLocalError); otherwise the last record is
\* buffered once more and task_done raises ValueError, as no task is
\* unfinished.
SinkShutDown ==
  /\ sink_pc = "get"
  /\ input_queue = <<>>
  /\ sink_shutdown
  /\ IF Len(batch_dict) > 0
     THEN /\ files' = write_batch(files, batch_dict)
          /\ UNCHANGED <<batch_dict, sink_raised>>
     ELSE IF record = <<>>
     THEN /\ sink_raised' = "UnboundLocalError"
          /\ UNCHANGED <<batch_dict, files>>
     ELSE /\ batch_dict' = Append(batch_dict, record[1])
          /\ sink_raised' = IF unfinished_tasks <= 0 THEN "ValueError" ELSE "none"
          /\ UNCHANGED files
  /\ sink_pc' = "done"
  /\ UNCHANGED <<input_queue, sink_shutdown, chunk_count, record, chunk_rows,
                 file_rows, puts>>
  /\ UNCHANGED <<counterVars, decoderVars, deviceVars, stubVars, pipeVars, handleVars, headerVars, g2Vars, histVars, onceVars>>

SinkNext ==
  \/ SinkPut
  \/ SinkQueueShutdown
  \/ SinkOpenFile
  \/ SinkGet
  \/ SinkShutDown

SpecSink == SinkInit /\ [][SinkNext]_vars

\* the rows of all chunks of all files, in creation order
Rows == Flatten(Flatten(files))

\* the records put so far, in order
Received == [k \in 1..puts |-> Rec(k)]

\* C28: when write_parquet has ended, the rows it has written are exactly
\* the records put on its queue before the shutdown, in that order, each
\* once; and at every moment the rows written, the rows buffered and the
\* records still queued make up the records put, as long as nothing raised.
C28_RowsAreRecords ==
  /\ sink_pc = "done" => Rows = Received
  /\ sink_raised = "none" /\ sink_pc # "done" =>
       Rows \o batch_dict \o input_queue = Received

\* three records went into two files, the last chunk partial
C28_Witness ==
  /\ sink_pc = "done"
  /\ puts = 3
  /\ chunk_rows = 2 /\ file_rows = 2
  /\ Len(files) = 2
  /\ Rows = <<Rec(1), Rec(2), Rec(3)>>

\* C29: when get raises QueueShutDown while the buffer holds a partial
\* chunk, that chunk is written to the current file in the same step in
\* which write_parquet returns, and nothing is raised.
C29_PartialChunkFlushed ==
  [][(sink_pc = "get" /\ sink_pc' = "done" /\ Len(batch_dict) > 0) =>
       /\ Len(batch_dict) < chunk_rows
       /\ files' = write_batch(files, batch_dict)
       /\ sink_raised' = "none"]_vars

\* a partial chunk of one row was written behind a full chunk
C29_Witness ==
  /\ sink_pc = "done"
  /\ chunk_rows = 2 /\ file_rows = 3
  /\ files = << << <<Rec(1), Rec(2)>>, <<Rec(3)>> >> >>

(***************************************************************************)
(* parse: the header of a capture file.  mh_file_parser/parser.py has the  *)
(* same loop, line for line.                                               *)
(*   inputfile    the file: its magic and its header entries in file       *)
(*                order, each with its tag type and, for the               *)
(*                length-prefixed types, the number of payload bytes that  *)
(*                follow the 8-byte length                                 *)
(*   cursor       the read position of inputfile, in bytes                 *)
(*   tagDataList  the tag types of the entries read so far                 *)
(*   parse_pc     "magic", "tags", "records" after Header_End, or how      *)
(*                parse ended                                              *)
(***************************************************************************)
MaxTags == 2

MaxPayload == 2

FixedTypes ==
  {"tyEmpty8", "tyBool8", "tyInt8", "tyBitSet64", "tyColor8", "tyFloat8",
   "tyTDateTime"}

LengthPrefixed == {"tyFloat8Array", "tyAnsiString", "tyWideString", "tyBinaryBlob"}

Tag(ident, typ, length) == [ident |-> ident, typ |-> typ, length |-> length]

\* the entries a header may hold before Header_End; "unknown" stands for a
\* type code that is none of the eleven
Entries ==
  {Tag("Tag", typ, 0) : typ \in FixedTypes \cup {"unknown"}}
    \cup {Tag("Tag", typ, n) : typ \in LengthPrefixed, n \in 0..MaxPayload}

RECURSIVE Headers(_)
Headers(n) ==
  IF n = 0 THEN {<<>>}
  ELSE Headers(n - 1) \cup
       {Append(h, e) : h \in {g \in Headers(n - 1) : Len(g) = n - 1}, e \in Entries}

HeaderInit ==
  /\ \E magic \in {"PQTTTR", "other"}, h \in Headers(MaxTags) :
       inputfile = [magic |-> magic,
                    tags  |-> Append(h, Tag("Header_End", "tyEmpty8", 0))]
  /\ cursor = 0
  /\ tagDataList = <<>>
  /\ parse_pc = "magic"
  /\ CounterIdle /\ DecoderIdle /\ DeviceIdle /\ StubIdle /\ PipeIdle /\ HandleIdle /\ SinkIdle /\ G2Idle /\ HistIdle /\ OnceIdle

\* bytes an entry takes in the file: identifier 32, index 4, type 4, value
\* 8, and the payload of a length-prefixed entry
EntrySize(e) == 32 + 4 + 4 + 8 + e.length

\* file position of the first byte of the k-th entry; magic and version
\* take 8 bytes each
RECURSIVE EntryStart(_)
EntryStart(k) ==
  IF k = 1 THEN 16 ELSE EntryStart(k - 1) + EntrySize(inputfile.tags[k - 1])

\* magic and version are read; a wrong magic ends parse
ReadMagic ==
  /\ parse_pc = "magic"
  /\ IF inputfile.magic # "PQTTTR"
     THEN cursor' = cursor + 8 /\ parse_pc' = "returned None"
     ELSE cursor' = cursor + 8 + 8 /\ parse_pc' = "tags"
  /\ UNCHANGED <<inputfile, tagDataList>>
  /\ UNCHANGED <<counterVars, decoderVars, deviceVars, stubVars, pipeVars, handleVars, sinkVars, g2Vars, histVars, onceVars>>

\* the bytes the branch of tagTyp reads after the 40 bytes of identifier,
\* index and type
value_bytes_read(e) ==
  IF e.typ \in {"tyAnsiString", "tyWideString"} THEN 8 + e.length ELSE 8

\* one turn of the loop.  The entry read is the one the cursor is at.  An
\* unknown type ends the process (exit(0)); Header_End ends the loop.  If
\* the turn leaves the cursor inside a payload, what the next turn takes
\* for identifier, index and type are payload bytes: the model stops there.
ReadTag ==
  /\ parse_pc = "tags"
  /\ LET k == Len(tagDataList) + 1
         e == inputfile.tags[k]
     IN  /\ cursor = EntryStart(k)
         /\ tagDataList' = Append(tagDataList, e.typ)
         /\ IF e.typ = "unknown"
            THEN /\ cursor' = cursor + 32 + 4 + 4
                 /\ parse_pc' = "exit(0)"
            ELSE /\ cursor' = cursor + 32 + 4 + 4 + value_bytes_read(e)
                 /\ parse_pc' =
                      IF e.ident = "Header_End" THEN "records"
                      ELSE IF cursor' = EntryStart(k + 1) THEN "tags"
                      ELSE "in payload"
  /\ UNCHANGED inputfile
  /\ UNCHANGED <<counterVars, decoderVars, deviceVars, stubVars, pipeVars, handleVars, sinkVars, g2Vars, histVars, onceVars>>

HeaderNext ==
  \/ ReadMagic
  \/ ReadTag

SpecHeader == HeaderInit /\ [][HeaderNext]_vars

\* the entry read in this step
ReadsEntry == Len(tagDataList') = Len(tagDataList) + 1

EntryRead == inputfile.tags[Len(tagDataList')]

\* C30: reading a recognized entry moves the cursor over identifier, index
\* and type and then by 8 bytes for a fixed-size type and by 8 + length
\* bytes for Float8Array, AnsiString, WideString and BinaryBlob, which
\* leaves it at the first byte of the next entry's identifier.
C30_CursorAtNextEntry ==
  [][(ReadsEntry /\ EntryRead.typ # "unknown") =>
       /\ cursor' = cursor + 40 + 8
                      + (IF EntryRead.typ \in LengthPrefixed
                         THEN EntryRead.length ELSE 0)
       /\ cursor' = EntryStart(Len(tagDataList') + 1)]_vars

\* what the code does: fixed-size entries and the two string types are
\* passed exactly; of a Float8Array or BinaryBlob entry only the 8-byte
\* length is read, so the cursor stops short by the payload length
C30_ArrayPayloadNotSkipped ==
  [][(ReadsEntry /\ EntryRead.typ # "unknown") =>
       IF EntryRead.typ \in {"tyFloat8Array", "tyBinaryBlob"}
       THEN cursor' = EntryStart(Len(tagDataList') + 1) - EntryRead.length
       ELSE cursor' = EntryStart(Len(tagDataList') + 1)]_vars

\* the chunks of a file that hold chunk_rows rows, the rows of a file
FullChunks(f) == Cardinality({k \in 1..Len(f) : Len(f[k]) = chunk_rows})

FileRowCount(f) == Len(Flatten(f))

\* a file has received file_rows / chunk_rows full chunks: its count of
\* full chunks has reached that quotient, and had not one chunk earlier
HasItsChunks(f) ==
  /\ FullChunks(f) * chunk_rows >= file_rows
  /\ (FullChunks(f) - 1) * chunk_rows < file_rows

\* C38: every file but the newest has received exactly its
\* file_rows / chunk_rows full chunks and nothing else; the newest file has
\* them exactly when write_parquet is about to start a new file; and when
\* chunk_rows divides file_rows no file holds more than file_rows rows and
\* every file but the last holds exactly file_rows rows.
C38_RotationByChunkCount ==
  /\ \A k \in 1..Len(files) :
       /\ k < Len(files) =>
            HasItsChunks(files[k]) /\ FullChunks(files[k]) = Len(files[k])
       /\ k = Len(files) => (HasItsChunks(files[k]) <=> sink_pc = "open")
  /\ file_rows % chunk_rows = 0 =>
       \A k \in 1..Len(files) :
         /\ FileRowCount(files[k]) <= file_rows
         /\ k < Len(files) => FileRowCount(files[k]) = file_rows

\* two files of two chunks of one row each have been left, a third is open
C38_Witness ==
  /\ chunk_rows = 1 /\ file_rows = 2
  /\ Len(files) = 3
  /\ FileRowCount(files[1]) = 2 /\ FileRowCount(files[2]) = 2
  /\ sink_pc = "get"

\* C39: once the input queue is shut down write_parquet ends without an
\* exception, whatever the number of records received, and the rows it
\* buffers are records it got from the queue, each once.
C39_EndsNormally ==
  /\ sink_raised = "none"
  /\ Rows \o batch_dict \o input_queue = Received

\* what the code does: it ends normally exactly when the buffer holds rows
\* at the shutdown; with an empty buffer it raises UnboundLocalError if no
\* record was ever received and ValueError otherwise, after buffering the
\* last record a second time
C39_RaisesOnEmptyBuffer ==
  [][(sink_pc = "get" /\ sink_pc' = "done") =>
       /\ Len(batch_dict) > 0 => sink_raised' = "none"
       /\ (Len(batch_dict) = 0 /\ puts = 0) => sink_raised' = "UnboundLocalError"
       /\ (Len(batch_dict) = 0 /\ puts > 0) =>
            /\ sink_raised' = "ValueError"
            /\ batch_dict' = <<Rec(puts)>>]_vars

(***************************************************************************)
(* One coincidence per base event (CoincidenceCounterState.process).       *)
(***************************************************************************)
\* the counter after each prefix of the stream: the item n + 1 is the
\* counter after the first n events
RECURSIVE Trajectory(_, _)
Trajectory(cc, evs) ==
  IF evs = <<>>
    THEN <<cc>>
    ELSE <<cc>> \o Trajectory(process_events(package, cc, <<Head(evs)>>),
                              Tail(evs))

\* the q-th event made machine k of the trajectory tr count
Increments(tr, k, q) ==
  tr[q + 1].coincidence_counters[k].count > tr[q].coincidence_counters[k].count

\* C40: a machine counts at most one coincidence per base event: every event
\* that increments machine k's count increments it by exactly one and is
\* preceded by an event on k's base channel with no increment of k in
\* between; in particular nothing is counted before the first base event.
C40_OneCountPerBaseEvent ==
  LET tr == Trajectory(CoincidenceCounter(TargetsOf(coincidence_counters)),
                       events)
  IN  \A k \in Machines :
        /\ tr[Len(events) + 1].coincidence_counters[k].count =
             coincidence_counters[k].count
        /\ \A q \in 1..Len(events) :
             Increments(tr, k, q) =>
               /\ tr[q + 1].coincidence_counters[k].count =
                    tr[q].coincidence_counters[k].count + 1
               /\ events[q].ch # coincidence_counters[k].base_ch.ch
               /\ \E b \in 1..(q - 1) :
                    /\ events[b].ch = coincidence_counters[k].base_ch.ch
                    /\ \A p \in b..(q - 1) : ~Increments(tr, k, p)

\* a machine counted once, then saw further events on its target channels
\* inside the window without a new base event, and still has count 1
C40_Witness ==
  LET tr == Trajectory(CoincidenceCounter(TargetsOf(coincidence_counters)),
                       events)
  IN  \E k \in Machines :
        \E q \in 2..(Len(events) - 1) :
          /\ Increments(tr, k, q)
          /\ coincidence_counters[k].count = 1
          /\ \A p \in (q + 1)..Len(events) :
               /\ events[p].ch # coincidence_counters[k].base_ch.ch
               /\ \E c \in 2..Len(coincidence_counters[k].channels) :
                    /\ events[p].ch = coincidence_counters[k].channels[c].ch
                    /\ in_peak_window(coincidence_counters[k].channels[c],
                                      events[p].t - coincidence_counters[k].base_start)

(***************************************************************************)
(* The g2 driver: main and calc_g2 of src/multiharp_toolkit/calc_g2.py.    *)
(* The run starts after the capture file is parsed, with both --peak1 and  *)
(* --peak2 given; extract_peak, the histogram estimate main falls back on  *)
(* without them, is not part of the model.                                 *)
(***************************************************************************)
\* number of events of the parsed capture
MaxG2Events == 4

\* largest --peak1 / --peak2
MaxPeak == 3

\* largest --peak-width
MaxPeakWidth == 1

\* pl.DataFrame({"timestamp": timestamps, "ch": ch})
DataFrame(timestamps, ch) ==
  [k \in 1..Len(timestamps) |-> Event(ch, timestamps[k])]

\* DataFrame.sort("timestamp"): each row is put at its place among the
\* rows sorted before it
RECURSIVE sort_timestamp(_)
sort_timestamp(rows) ==
  IF rows = <<>>
    THEN <<>>
    ELSE LET row    == rows[Len(rows)]
             sorted == sort_timestamp(SubSeq(rows, 1, Len(rows) - 1))
         IN  SelectSeq(sorted, LAMBDA r : r.t <= row.t) \o <<row>>
               \o SelectSeq(sorted, LAMBDA r : r.t > row.t)

\* the timestamps of detector ch in a capture whose k-th event, at time k,
\* is on channel stream[k]: result.events[ch] (the model's captures have no
\* two events with the same timestamp, whose order after sort is unspecified)
events_of(stream, ch) ==
  LET RECURSIVE pick(_)
      pick(k) == IF k > Len(stream) THEN <<>>
                 ELSE IF stream[k] = ch THEN <<k>> \o pick(k + 1)
                 ELSE pick(k + 1)
  IN  pick(1)

G2Init ==
  /\ g2_pc = "load"
  /\ \E stream \in UNION {[1..n -> 0..2] : n \in 0..MaxG2Events} :
       result_events = [c \in 1..3 |-> events_of(stream, c - 1)]
  /\ peak1 \in 1..MaxPeak
  /\ peak2 \in 1..MaxPeak
  /\ peak_width \in 1..MaxPeakWidth
  /\ df = <<>>
  /\ peak_start_1 = 0
  /\ peak_end_1 = 0
  /\ peak_start_2 = 0
  /\ peak_end_2 = 0
  /\ channel_swapped = FALSE
  /\ window_of = <<>>
  /\ counter = <<>>
  /\ res = <<>>
  /\ g2_raised = "none"
  /\ CounterIdle /\ DecoderIdle /\ DeviceIdle /\ StubIdle /\ PipeIdle /\ HandleIdle /\ SinkIdle /\ HeaderIdle /\ HistIdle /\ OnceIdle

\* main: the frame of all events and the two windows
MainLoad ==
  /\ g2_pc = "load"
  /\ df' = sort_timestamp(DataFrame(result_events[1], 0)
                          \o DataFrame(result_events[2], 1)
                          \o DataFrame(result_events[3], 2))
  /\ peak_start_1' = peak1 - peak_width
  /\ peak_end_1' = peak1 + peak_width
  /\ peak_start_2' = peak2 - peak_width
  /\ peak_end_2' = peak2 + peak_width
  /\ window_of' = <<[start |-> peak1 - peak_width, end |-> peak1 + peak_width],
                    [start |-> peak2 - peak_width, end |-> peak2 + peak_width]>>
  /\ g2_pc' = "swap"
  /\ UNCHANGED <<result_events, peak1, peak2, peak_width, channel_swapped,
                 counter, res, g2_raised>>
  /\ UNCHANGED <<counterVars, decoderVars, deviceVars, stubVars, pipeVars, handleVars, sinkVars, headerVars, histVars, onceVars>>

\* variant: the labels are exchanged, the windows are not
MainSwap_labelsOnly ==
  /\ g2_pc = "swap"
  /\ IF peak_start_1 > peak_start_2
       THEN /\ channel_swapped' = TRUE
            /\ df' = sort_timestamp(DataFrame(result_events[1], 0)
                                    \o DataFrame(result_events[3], 1)
                                    \o DataFrame(result_events[2], 2))
            /\ UNCHANGED <<peak_start_1, peak_end_1, peak_start_2, peak_end_2>>
       ELSE UNCHANGED <<channel_swapped, df, peak_start_1, peak_end_1,
                        peak_start_2, peak_end_2>>
  /\ g2_pc' = "calc"
  /\ UNCHANGED <<result_events, peak1, peak2, peak_width, window_of, counter,
                 res, g2_raised>>
  /\ UNCHANGED <<counterVars, decoderVars, deviceVars, stubVars, pipeVars, handleVars, sinkVars, headerVars, histVars, onceVars>>

\* main: "if peak_start_1 > peak_start_2:  # swap ch1 and ch2"
MainSwap ==
  /\ g2_pc = "swap"
  /\ IF peak_start_1 > peak_start_2
       THEN /\ channel_swapped' = TRUE
            /\ df' = sort_timestamp(DataFrame(result_events[1], 0)
                                    \o DataFrame(result_events[3], 1)
                                    \o DataFrame(result_events[2], 2))
            /\ peak_end_1' = peak_end_2
            /\ peak_start_1' = peak_start_2
            /\ peak_end_2' = peak_end_1
            /\ peak_start_2' = peak_start_1
       ELSE UNCHANGED <<channel_swapped, df, peak_start_1, peak_end_1,
                        peak_start_2, peak_end_2>>
  /\ g2_pc' = "calc"
  /\ UNCHANGED <<result_events, peak1, peak2, peak_width, window_of, counter,
                 res, g2_raised>>
  /\ UNCHANGED <<counterVars, decoderVars, deviceVars, stubVars, pipeVars, handleVars, sinkVars, headerVars, histVars, onceVars>>

\* the coincidence_targets of calc_g2
calc_g2_targets ==
  LET ch_sync == PlainChannel(0)
      ch_1    == ChannelInfo(1, peak_start_1, peak_end_1)
      ch_2    == ChannelInfo(2, peak_start_2, peak_end_2)
  IN  << <<ch_sync, ch_1, ch_2>>, <<ch_sync, ch_2>>, <<ch_sync, ch_1>> >>

\* calc_g2: the counter and the loop over the frame
CalcG2Count ==
  /\ g2_pc = "calc"
  /\ LET cc == process_events("src", CoincidenceCounter(calc_g2_targets), df)
     IN  /\ counter' = <<cc>>
         /\ g2_raised' = cc.raised
         /\ g2_pc' = IF cc.raised = "none" THEN "reduce" ELSE "done"
  /\ UNCHANGED <<result_events, peak1, peak2, peak_width, df, peak_start_1,
                 peak_end_1, peak_start_2, peak_end_2, channel_swapped,
                 window_of, res>>
  /\ UNCHANGED <<counterVars, decoderVars, deviceVars, stubVars, pipeVars, handleVars, sinkVars, headerVars, histVars, onceVars>>

\* the counts calc_g2 reads from the counter
calc_g2_counts ==
  [n_sync     |-> counter[1].number_of_counts[0],
   n_sync_1   |-> counter[1].coincidence_counters[3].count,
   n_sync_2   |-> counter[1].coincidence_counters[2].count,
   n_sync_1_2 |-> counter[1].coincidence_counters[1].count]

\* calc_g2 after the loop: the ratios it prints and the dictionary it
\* returns (g2 as the fraction num / den), to which main adds the event
\* numbers; a division by zero raises ZeroDivisionError
CalcG2Reduce ==
  /\ g2_pc = "reduce"
  /\ LET n_sync     == calc_g2_counts.n_sync
         n_sync_1   == calc_g2_counts.n_sync_1
         n_sync_2   == calc_g2_counts.n_sync_2
         n_sync_1_2 == calc_g2_counts.n_sync_1_2
     IN
     IF n_sync = 0 \/ n_sync_1 * n_sync_2 = 0
       THEN /\ g2_raised' = "ZeroDivisionError"
            /\ res' = res
       ELSE /\ g2_raised' = g2_raised
            /\ res' = <<[peak_start_1 |-> peak_start_1,
                         peak_end_1 |-> peak_end_1,
                         peak_start_2 |-> peak_start_2,
                         peak_end_2 |-> peak_end_2,
                         n_sync |-> n_sync,
                         n_sync_1 |-> n_sync_1,
                         n_sync_2 |-> n_sync_2,
                         n_sync_1_2 |-> n_sync_1_2,
                         g2 |-> [num |-> n_sync * n_sync_1_2,
                                 den |-> n_sync_1 * n_sync_2],
                         num_ch1_events |->
                           IF channel_swapped THEN Len(result_events[3])
                                              ELSE Len(result_events[2]),
                         num_ch2_events |->
                           IF channel_swapped THEN Len(result_events[2])
                                              ELSE Len(result_events[3])]>>
  /\ g2_pc' = "done"
  /\ UNCHANGED <<result_events, peak1, peak2, peak_width, df, peak_start_1,
                 peak_end_1, peak_start_2, peak_end_2, channel_swapped,
                 window_of, counter>>
  /\ UNCHANGED <<counterVars, decoderVars, deviceVars, stubVars, pipeVars, handleVars, sinkVars, headerVars, histVars, onceVars>>

G2Next == MainLoad \/ MainSwap \/ CalcG2Count \/ CalcG2Reduce

SpecG2 == G2Init /\ [][G2Next]_vars

(***************************************************************************)
(* Properties of the g2 driver.                                            *)
(***************************************************************************)
Window(start, end) == [start |-> start, end |-> end]

N_sync == calc_g2_counts.n_sync
N_1 == calc_g2_counts.n_sync_1
N_2 == calc_g2_counts.n_sync_2
N_1_2 == calc_g2_counts.n_sync_1_2

\* the loop of calc_g2 is over and gave these counts
Counted_g2 == counter # <<>> /\ counter[1].raised = "none"

\* C31: when the counts give N1 = 0 or N2 = 0, the reduction ends with
\* InsufficientData and returns no value.
C31_InsufficientData ==
  (g2_pc = "done" /\ Counted_g2 /\ (N_1 = 0 \/ N_2 = 0))
    => g2_raised = "InsufficientData" /\ res = <<>>

\* what the reduction does instead: with a zero among N_sync, N1 and N2 it
\* ends with ZeroDivisionError, returns nothing and leaves the counter as
\* the loop left it; otherwise it returns the counts and their quotient
C31_ZeroDivisionError ==
  [][(g2_pc = "reduce" /\ g2_pc' = "done") =>
       /\ counter' = counter
       /\ IF N_sync = 0 \/ N_1 = 0 \/ N_2 = 0
            THEN g2_raised' = "ZeroDivisionError" /\ res' = <<>>
            ELSE /\ g2_raised' = "none"
                 /\ res'[1].g2 = [num |-> N_sync * N_1_2, den |-> N_1 * N_2]]_vars

\* the label main gives detector d (1 or 2) in the frame calc_g2 gets
LabelOf(d) == IF channel_swapped THEN 3 - d ELSE d

\* the window calc_g2 gets for label l
WindowOfLabel(l) ==
  IF l = 1 THEN Window(peak_start_1, peak_end_1)
           ELSE Window(peak_start_2, peak_end_2)

\* the timestamps the frame has under label l
TimesOfLabel(l) == {df[k].t : k \in {j \in 1..Len(df) : df[j].ch = l}}

Range(s) == {s[k] : k \in 1..Len(s)}

\* C32: the coincidence engine is always run with peak_start_1 <=
\* peak_start_2: when the window of detector 1 starts later than that of
\* detector 2, and only then, the labels 1 and 2 are exchanged on all events
\* of the frame together with the windows, so that each detector's events
\* are gated by the window that was determined for that detector.
C32_SwapKeepsWindows ==
  g2_pc \in {"calc", "reduce", "done"} =>
    /\ peak_start_1 <= peak_start_2
    /\ channel_swapped <=> window_of[1].start > window_of[2].start
    /\ Len(df) = Len(result_events[1]) + Len(result_events[2])
                   + Len(result_events[3])
    /\ \A k \in 1..(Len(df) - 1) : df[k].t <= df[k + 1].t
    /\ TimesOfLabel(0) = Range(result_events[1])
    /\ \A d \in 1..2 :
         /\ TimesOfLabel(LabelOf(d)) = Range(result_events[d + 1])
         /\ WindowOfLabel(LabelOf(d)) = window_of[d]
    /\ counter # <<>> =>
         TargetsOf(counter[1].coincidence_counters) =
           << <<PlainChannel(0),
                ChannelInfo(1, peak_start_1, peak_end_1),
                ChannelInfo(2, peak_start_2, peak_end_2)>>,
              <<PlainChannel(0), ChannelInfo(2, peak_start_2, peak_end_2)>>,
              <<PlainChannel(0), ChannelInfo(1, peak_start_1, peak_end_1)>> >>

\* a run with the labels exchanged in which an event of detector 2 was
\* counted under label 1 and one of detector 1 under label 2
C32_Witness ==
  /\ g2_pc = "done"
  /\ channel_swapped
  /\ res # <<>>
  /\ res[1].n_sync_1_2 = 1
  /\ res[1].peak_start_1 < res[1].peak_start_2
  /\ res[1].num_ch1_events = Len(result_events[3])

(***************************************************************************)
(* The delay histogram: Histogram.process of                               *)
(* python/multiharp_toolkit/histogram.py (the same code as                 *)
(* src/multiharp_toolkit/histogram.py).  A frame is its list of rows       *)
(* (ch, timestamp); the resulting frame self.df is the function from the   *)
(* values of its column bin to the row's counts, count[c] being the column *)
(* count_c.                                                                *)
(***************************************************************************)
\* number of rows of the frame
MaxHistEvents == 3

bin_count == 1000

min_timediff == 0

max_timediff == 1500

HistInit ==
  /\ hist_pc = "process"
  /\ hist_base_ch = 0
  /\ hist_channels \in {<<1>>, <<1, 2>>}
  /\ LET HistTimes == {0, 1, 1500, 1501}  \* timestamps, in ps
     IN  frame \in UNION {[1..n -> {Event(ch, t) : ch \in 0..2, t \in HistTimes}] :
                             n \in 0..MaxHistEvents}
  /\ hist_df = <<>>
  /\ CounterIdle /\ DecoderIdle /\ DeviceIdle /\ StubIdle /\ PipeIdle /\ HandleIdle /\ SinkIdle /\ HeaderIdle /\ G2Idle /\ OnceIdle

\* _df: every row with the ch and the timestamp of the row after it; the
\* last row has none and is dropped (shift(-1), drop_nulls)
with_next(rows) ==
  [k \in 1..(Len(rows) - 1) |->
     [ch |-> rows[k].ch, timestamp |-> rows[k].t,
      next_ch |-> rows[k + 1].ch, next_timestamp |-> rows[k + 1].t]]

\* variant: the upper limit of the delay is included
time_diffs_closed(_df, base_ch, channel_to) ==
  LET from_to == SelectSeq(_df, LAMBDA r : r.ch = base_ch
                                            /\ r.next_ch = channel_to)
      diffs   == [k \in 1..Len(from_to) |->
                    from_to[k].next_timestamp - from_to[k].timestamp]
  IN  SelectSeq(diffs, LAMBDA d : d > min_timediff /\ d <= max_timediff)

\* the column time_diff of time_diffs
time_diffs(_df, base_ch, channel_to) ==
  LET from_to == SelectSeq(_df, LAMBDA r : r.ch = base_ch
                                            /\ r.next_ch = channel_to)
      diffs   == [k \in 1..Len(from_to) |->
                    from_to[k].next_timestamp - from_to[k].timestamp]
  IN  SelectSeq(diffs, LAMBDA d : d > min_timediff /\ d < max_timediff)

\* ((time_diff - min_timediff) / bin_width).floor() with
\* bin_width = (max_timediff - min_timediff) / bin_count
bin_of(time_diff) ==
  ((time_diff - min_timediff) * bin_count) \div (max_timediff - min_timediff)

\* process: hist_df of every channel (group_by("bin"), len), joined on bin
\* with the missing counts filled with 0
HistProcess ==
  /\ hist_pc = "process"
  /\ LET _df == with_next(frame)
         diffs(c) == time_diffs(_df, hist_base_ch, hist_channels[c])
         hist(c) == [b \in {bin_of(diffs(c)[k]) : k \in 1..Len(diffs(c))} |->
                       Cardinality({k \in 1..Len(diffs(c)) :
                                      bin_of(diffs(c)[k]) = b})]
         bins == UNION {DOMAIN hist(c) : c \in 1..Len(hist_channels)}
     IN  hist_df' =
           <<[b \in bins |->
                [ch \in {hist_channels[c] : c \in 1..Len(hist_channels)} |->
                   LET c == CHOOSE c \in 1..Len(hist_channels) :
                              hist_channels[c] = ch
                   IN  IF b \in DOMAIN hist(c) THEN hist(c)[b] ELSE 0]]>>
  /\ hist_pc' = "done"
  /\ UNCHANGED <<hist_base_ch, hist_channels, frame>>
  /\ UNCHANGED <<counterVars, decoderVars, deviceVars, stubVars, pipeVars, handleVars, sinkVars, headerVars, g2Vars, onceVars>>

HistNext == HistProcess

SpecHist == HistInit /\ [][HistNext]_vars

(***************************************************************************)
(* Properties of the delay histogram.                                      *)
(***************************************************************************)
\* the delay between the k-th row of the frame and the row after it
Delta(k) == frame[k + 1].t - frame[k].t

\* the adjacent pairs (k, k + 1) from the base channel to channel T whose
\* delay lies strictly between 0 and 1500 ps
QualifyingPairs(T) ==
  {k \in 1..(Len(frame) - 1) :
     /\ frame[k].ch = hist_base_ch
     /\ frame[k + 1].ch = T
     /\ 0 < Delta(k)
     /\ Delta(k) < 1500}

\* b = floor((delta - 0) / bin_width), the bins being 1500 / 1000 ps wide
InBin(delta, b) == b * 1500 <= delta * 1000 /\ delta * 1000 < (b + 1) * 1500

MaxUserCalls == 4

UserCall(fn, exc) == [fn |-> fn, raised |-> exc]

OnceInit ==
  /\ ready = <<>>
  /\ running = "none"
  /\ stub_pc = "idle"
  /\ output_queue = <<>>
  /\ is_shutdown = FALSE
  /\ measurement_time = 0
  /\ now = 0
  /\ start_time = 0
  /\ wake_at = 0
  /\ proc_pc = "idle"
  /\ batch_in_hand = <<>>
  /\ closed = FALSE
  /\ processed_queue = <<>>
  /\ processed_shutdown = FALSE
  /\ cons_pc = "done"
  /\ sent = <<>>
  /\ received = <<>>
  /\ pipe_raised = "none"
  /\ via = "none"
  /\ user_calls = <<>>
  /\ output_shutdowns = 0
  /\ CounterIdle /\ DecoderIdle /\ DeviceIdle /\ HandleIdle /\ SinkIdle /\ HeaderIdle /\ G2Idle /\ HistIdle

\* the user task calls open(), or enters "async with": the call starts to run
\* when the loop schedules it
UserOpen(fn) ==
  /\ running = "none"
  /\ proc_pc \in {"idle", "done"}
  /\ Len(user_calls) < MaxUserCalls
  /\ proc_pc' = "start"
  /\ ready' = Append(ready, "processor")
  /\ via' = fn
  /\ pipe_raised' = "none"
  /\ user_calls' = Append(user_calls, UserCall(fn, "none"))
  /\ UNCHANGED <<running, batch_in_hand, closed, processed_queue,
                 processed_shutdown, cons_pc, sent, received, output_shutdowns>>
  /\ UNCHANGED <<counterVars, decoderVars, deviceVars, stubVars, handleVars, sinkVars, headerVars, g2Vars, histVars>>

\* the user task calls close()
UserClose ==
  /\ running = "none"
  /\ Len(user_calls) < MaxUserCalls
  /\ close
  /\ user_calls' = Append(user_calls,
                          UserCall("close", IF closed THEN "InvalidStateException"
                                                      ELSE "none"))
  /\ UNCHANGED <<running, proc_pc, batch_in_hand, processed_queue, sent,
                 received, pipe_raised, via>>
  /\ UNCHANGED <<counterVars, decoderVars, deviceVars, stubVars, handleVars, sinkVars, headerVars, g2Vars, histVars>>

\* the body of "async with" is left after __aenter__ returned: __aexit__
\* calls close
Aexit ==
  /\ running = "none"
  /\ via = "__aenter__"
  /\ proc_pc = "done"
  /\ pipe_raised = "none"
  /\ close
  /\ via' = "none"
  /\ user_calls' = Append(user_calls,
                          UserCall("__aexit__",
                                   IF closed THEN "InvalidStateException"
                                             ELSE "none"))
  /\ UNCHANGED <<running, proc_pc, batch_in_hand, processed_queue, sent,
                 received, pipe_raised>>
  /\ UNCHANGED <<counterVars, decoderVars, deviceVars, stubVars, handleVars, sinkVars, headerVars, g2Vars, histVars>>

\* a batch of raw records is put on the input queue
UserPut ==
  /\ running = "none"
  /\ ~is_shutdown
  /\ Len(user_calls) < MaxUserCalls
  /\ output_queue' = Append(output_queue, generate_raw_records)
  /\ WakeProcessor
  /\ user_calls' = Append(user_calls, UserCall("put", "none"))
  /\ UNCHANGED <<stub_pc, is_shutdown, measurement_time, now, start_time, wake_at>>
  /\ UNCHANGED <<running, batch_in_hand, closed, processed_queue,
                 processed_shutdown, cons_pc, sent, received, pipe_raised,
                 via, output_shutdowns>>
  /\ UNCHANGED <<counterVars, decoderVars, deviceVars, handleVars, sinkVars, headerVars, g2Vars, histVars>>

\* the input queue is shut down
UserShutdown ==
  /\ running = "none"
  /\ ~is_shutdown
  /\ Len(user_calls) < MaxUserCalls
  /\ is_shutdown' = TRUE
  /\ WakeProcessor
  /\ user_calls' = Append(user_calls, UserCall("shutdown", "none"))
  /\ UNCHANGED <<stub_pc, output_queue, measurement_time, now, start_time, wake_at>>
  /\ UNCHANGED <<running, batch_in_hand, closed, processed_queue,
                 processed_shutdown, cons_pc, sent, received, pipe_raised,
                 via, output_shutdowns>>
  /\ UNCHANGED <<counterVars, decoderVars, deviceVars, handleVars, sinkVars, headerVars, g2Vars, histVars>>

OnceNext ==
  \/ UserOpen("open")
  \/ UserOpen("__aenter__")
  \/ UserClose
  \/ Aexit
  \/ UserPut
  \/ UserShutdown
  \/ RunOnce
  \/ ProcOpen
  \/ ProcGet
  \/ ProcSuspend
  \/ ProcClose
  \/ ProcRecord
  \/ ProcTaskDone

SpecOnce == OnceInit /\ [][OnceNext]_vars

(***************************************************************************)
(* Properties of the processor's life cycle.                               *)
(***************************************************************************)
\* this step is a call of close() by the user task or by __aexit__
UserCloses ==
  /\ Len(user_calls') = Len(user_calls) + 1
  /\ user_calls'[Len(user_calls')].fn \in {"close", "__aexit__"}

\* this step is the call of close() that open makes at QueueShutDown
OpenCloses ==
  /\ running = "processor"
  /\ proc_pc \in {"get", "process"}
  /\ proc_pc' = "done"

\* C36: a processor is used once: closed is never reset, and an open() that
\* starts on a closed processor (closed by the shutdown of the input queue
\* or by a call of close) ends at once with InvalidStateException, without
\* taking an item from the input queue, putting one on the output queue or
\* touching the output queue's shutdown.
C36_OpenOnlyOnce ==
  [][/\ closed => closed'
     /\ (running = "processor" /\ proc_pc = "start" /\ closed) =>
          /\ proc_pc' = "done"
          /\ pipe_raised' = "InvalidStateException"
          /\ output_queue' = output_queue
          /\ batch_in_hand' = batch_in_hand
          /\ processed_queue' = processed_queue
          /\ processed_shutdown' = processed_shutdown
          /\ output_shutdowns' = output_shutdowns]_vars

\* the processor was opened, closed by the shutdown of its input queue and
\* opened again: the second open raised
C36_Witness ==
  /\ user_calls = <<UserCall("open", "none"), UserCall("shutdown", "none"),
                    UserCall("open", "none")>>
  /\ proc_pc = "done"
  /\ pipe_raised = "InvalidStateException"
  /\ output_shutdowns = 1

\* C37: close takes effect at most once.  The first close shuts the output
\* queue down and sets closed; every close on a closed processor - by the
\* user task, by __aexit__ or by open itself - raises InvalidStateException
\* and does not shut the output queue down again; an open() that returned
\* normally has closed the processor, so every close after it raises.
C37_CloseOnlyOnce ==
  [][/\ output_shutdowns' <= 1
     /\ closed' <=> output_shutdowns' = 1
     /\ closed' <=> processed_shutdown'
     /\ (proc_pc' = "done" /\ pipe_raised' = "none") => closed'
     /\ UserCloses =>
          IF closed
            THEN /\ user_calls'[Len(user_calls')].raised = "InvalidStateException"
                 /\ output_shutdowns' = output_shutdowns
            ELSE /\ user_calls'[Len(user_calls')].raised = "none"
                 /\ output_shutdowns' = 1
                 /\ closed'
     /\ OpenCloses =>
          IF closed
            THEN /\ pipe_raised' = "InvalidStateException"
                 /\ output_shutdowns' = output_shutdowns
            ELSE /\ pipe_raised' = "none"
                 /\ output_shutdowns' = 1
                 /\ closed']_vars

\* the processor was used with "async with": open returned at the shutdown
\* of the input queue and the close of __aexit__ raised
C37_Witness ==
  /\ user_calls # <<>>
  /\ user_calls[Len(user_calls)] = UserCall("__aexit__", "InvalidStateException")
  /\ \E k \in 1..Len(user_calls) : user_calls[k].fn = "shutdown"
  /\ output_shutdowns = 1
  /\ closed

(***************************************************************************)
(* Properties of StreamParser.run.                                         *)
(***************************************************************************)
\* the positions of the markers among the vals run has taken so far
MarkersTaken ==
  {k \in 1..Len(raw_records) :
     raw_records[k].type \in {"MeasStartMarker", "MeasEndMarker"}}

\* C35: StreamParser passes every marker on: each marker it has taken from
\* queue_recv is on queue_send, so that the events of an acquisition are
\* published between its MeasStart and its MeasEnd.
C35_MarkersPassThrough ==
  decoder = "StreamParser" =>
    \A k \in MarkersTaken :
      \E j \in 1..Len(queue_send) : queue_send[j] = raw_records[k]

\* what run does: no marker reaches queue_send, because run ends with
\* AttributeError at the first marker and at the first non-empty batch
C35_EndsAtFirstMarker ==
  decoder = "StreamParser" =>
    /\ MarkersTaken # {} =>
         /\ decoder_raised = "AttributeError"
         /\ MarkersTaken = {Len(raw_records)}
         /\ queue_send = <<>>
    /\ Len(queue_send) <= 1
    /\ queue_send # <<>> => decoder_raised = "AttributeError"

====
